---------------------------- MODULE Spec2Model ----------------------------
(***************************************************************************)
(* Model of the ArchivesSpace CSV import (aspace_csv_import.py): the       *)
(* repository client (login, make_request with bounded retry and           *)
(* re-authentication), the field mappers, the change detector, the row     *)
(* processor and the batch driver.                                         *)
(*                                                                         *)
(* Strings.  A Python string is modelled as [lead, core, trail]: `core' is *)
(* the text without surrounding whitespace, `lead'/`trail' count the       *)
(* whitespace characters around it, so that str.strip() and truthiness     *)
(* are computed and not assumed.  A date column has a structured core      *)
(* (separator and three numeric fields with their written widths) so that  *)
(* datetime.strptime / strftime are computed.  Optional values are         *)
(* sequences of length 0 (None) or 1.                                      *)
(***************************************************************************)
EXTENDS Integers, Sequences, FiniteSets, TLC

\* ------------------------------------------------------------------------
\* Bounds of the model
\* ------------------------------------------------------------------------
NumRows == 2

\* ------------------------------------------------------------------------
\* Program constants
\* ------------------------------------------------------------------------
RETRY_ATTEMPTS == 3
BATCH_SIZE == 10

ExtentTypeNames ==
  << "1 inch videotape", "2 inch videotape", "3/4 inch videotape",
     "1/2 inch videotape", "Betacam", "Betamax", "VHS", "U-matic",
     "MiniDV", "videocassettes", "videoreels", "videotapes" >>

\* ------------------------------------------------------------------------
\* Python values
\* ------------------------------------------------------------------------
None == << >>
Some(v) == << v >>

S(core) == [lead |-> 0, core |-> core, trail |-> 0]
Padded(core) == [lead |-> 1, core |-> core, trail |-> 1]
EmptyStr == S("")
BlankStr == [lead |-> 1, core |-> "", trail |-> 0]

\* bool(s) of a str: non-empty
Truthy(s) == s.core # "" \/ s.lead + s.trail > 0
\* str.strip()
Strip(s) == [lead |-> 0, core |-> s.core, trail |-> 0]

VALID_EXTENT_TYPES == [i \in DOMAIN ExtentTypeNames |-> S(ExtentTypeNames[i])]

Range(seq) == { seq[i] : i \in DOMAIN seq }

\* ------------------------------------------------------------------------
\* Date texts
\* ------------------------------------------------------------------------
NoFields == << >>
EmptyCore == [k |-> "empty", sep |-> "", f |-> NoFields]
JunkCore == [k |-> "junk", sep |-> "", f |-> NoFields]
Num(sep, a, aw, b, bw, c, cw) ==
  [k |-> "num", sep |-> sep,
   f |-> << [v |-> a, w |-> aw], [v |-> b, w |-> bw], [v |-> c, w |-> cw] >>]

D(core) == [lead |-> 0, core |-> core, trail |-> 0]
EmptyDate == D(EmptyCore)
BlankDate == [lead |-> 1, core |-> EmptyCore, trail |-> 0]
DTruthy(s) == s.core.k # "empty" \/ s.lead + s.trail > 0
DStrip(s) == [lead |-> 0, core |-> s.core, trail |-> 0]

IsLeap(y) == (y % 4 = 0 /\ y % 100 # 0) \/ y % 400 = 0
DaysIn(m, y) ==
  IF m = 2 THEN (IF IsLeap(y) THEN 29 ELSE 28)
  ELSE IF m \in {4, 6, 9, 11} THEN 30 ELSE 31

\* datetime(y, m, d) is constructible
ValidYMD(y, m, d) == y \in 1..9999 /\ m \in 1..12 /\ d \in 1..DaysIn(m, y)

\* date_obj.strftime("%Y-%m-%d")
Strftime(y, m, d) == D(Num("-", y, 4, m, 2, d, 2))

\* the year a two-digit %y stands for
Pivot(yy) == IF yy < 69 THEN 2000 + yy ELSE 1900 + yy

\* datetime.strptime(text, fmt): None on ValueError, else the (y, m, d)
Strptime(c, fmt) ==
  IF c.k # "num" THEN None
  ELSE LET a == c.f[1]  b == c.f[2]  z == c.f[3] IN
    CASE fmt = "%m/%d/%Y" ->
           IF c.sep = "/" /\ a.w \in 1..2 /\ b.w \in 1..2 /\ z.w = 4
              /\ ValidYMD(z.v, a.v, b.v)
           THEN Some(<< z.v, a.v, b.v >>) ELSE None
      [] fmt = "%m/%d/%y" ->
           IF c.sep = "/" /\ a.w \in 1..2 /\ b.w \in 1..2 /\ z.w = 2
              /\ ValidYMD(Pivot(z.v), a.v, b.v)
           THEN Some(<< Pivot(z.v), a.v, b.v >>) ELSE None
      [] fmt = "%Y-%m-%d" ->
           IF c.sep = "-" /\ a.w = 4 /\ b.w \in 1..2 /\ z.w \in 1..2
              /\ ValidYMD(a.v, b.v, z.v)
           THEN Some(<< a.v, b.v, z.v >>) ELSE None
      [] fmt = "%Y/%m/%d" ->
           IF c.sep = "/" /\ a.w = 4 /\ b.w \in 1..2 /\ z.w \in 1..2
              /\ ValidYMD(a.v, b.v, z.v)
           THEN Some(<< a.v, b.v, z.v >>) ELSE None
      [] fmt = "%d/%m/%Y" ->
           IF c.sep = "/" /\ a.w \in 1..2 /\ b.w \in 1..2 /\ z.w = 4
              /\ ValidYMD(z.v, b.v, a.v)
           THEN Some(<< z.v, b.v, a.v >>) ELSE None

formats == << "%m/%d/%Y", "%m/%d/%y", "%Y-%m-%d", "%Y/%m/%d", "%d/%m/%Y" >>

RECURSIVE TryFormats(_, _)
TryFormats(c, i) ==
  IF i > Len(formats) THEN None
  ELSE LET r == Strptime(c, formats[i]) IN
       IF r # None THEN Some(Strftime(r[1][1], r[1][2], r[1][3]))
       ELSE TryFormats(c, i + 1)

\* parse_date(date_string) -> Optional[str]
parse_date(date_string) ==
  IF ~DTruthy(date_string) \/ DStrip(date_string) = EmptyDate THEN None
  ELSE TryFormats(DStrip(date_string).core, 1)

\* ------------------------------------------------------------------------
\* Field mappers
\* ------------------------------------------------------------------------
DateObject(label, date_str) ==
  [date_type |-> "single", label |-> label, begin |-> date_str,
   expression |-> date_str, jsonmodel_type |-> "date"]

\* one "if row.get(column): ... dates.append(...)" block
DateFor(text, label) ==
  IF DTruthy(text) /\ parse_date(text) # None
  THEN << DateObject(label, parse_date(text)[1]) >>
  ELSE << >>

create_date_objects(row) ==
  DateFor(row.Creation_or_Recording_Date, "creation")
    \o DateFor(row.Edit_Date, "Edited")
    \o DateFor(row.Broadcast_Date, "broadcast")

create_extent_objects(row) ==
  LET original_format == Strip(row.Original_Format) IN
  IF Truthy(original_format)
  THEN << [portion |-> "whole", number |-> "1",
           extent_type |-> original_format, jsonmodel_type |-> "extent"] >>
  ELSE << >>

NoteMultipart(type, content) ==
  [jsonmodel_type |-> "note_multipart", type |-> type, label |-> "",
   subnotes |-> << [jsonmodel_type |-> "note_text", content |-> content] >>,
   publish |-> TRUE]

create_notes(row) ==
  LET description == Strip(row.DESCRIPTION)
      transfer_notes == Strip(row._TRANSFER_NOTES)
  IN (IF Truthy(description)
        THEN << NoteMultipart("scopecontent", description) >> ELSE << >>)
     \o (IF Truthy(transfer_notes)
           THEN << NoteMultipart("phystech", transfer_notes) >> ELSE << >>)

\* ------------------------------------------------------------------------
\* Change detection
\* ------------------------------------------------------------------------
RECURSIVE FirstContent(_, _)
FirstContent(subnotes, i) ==
  IF i > Len(subnotes) THEN None
  ELSE IF Truthy(subnotes[i].content) THEN Some(subnotes[i].content)
  ELSE FirstContent(subnotes, i + 1)

RECURSIVE NoteContentFrom(_, _, _)
NoteContentFrom(notes, note_type, i) ==
  IF i > Len(notes) THEN None
  ELSE IF notes[i].type = note_type /\ FirstContent(notes[i].subnotes, 1) # None
       THEN FirstContent(notes[i].subnotes, 1)
       ELSE NoteContentFrom(notes, note_type, i + 1)

get_note_content(notes, note_type) == NoteContentFrom(notes, note_type, 1)

\* {d.get('label'): d.get('begin') for d in dates}: the last entry of a label wins
Last(seq, label) ==
  CHOOSE i \in DOMAIN seq :
    /\ seq[i].label = label
    /\ \A j \in DOMAIN seq : seq[j].label = label => j <= i

Begins(dates) ==
  [l \in { dates[i].label : i \in DOMAIN dates } |-> dates[Last(dates, l)].begin]

ExtentTypes(extents) == [i \in DOMAIN extents |-> extents[i].extent_type]

\* detect_changes that also compares the phystech note with _TRANSFER_NOTES
detect_changes_ComparesTransferNotes(existing_obj, row) ==
  LET new_title == Strip(row.TITLE)
      existing_begins == Begins(existing_obj.dates)
      new_begins == Begins(create_date_objects(row))
      existing_extent_types == ExtentTypes(existing_obj.extents)
      new_extent_types == ExtentTypes(create_extent_objects(row))
      existing_scope == get_note_content(existing_obj.notes, "scopecontent")
      new_description == Strip(row.DESCRIPTION)
      existing_phystech == get_note_content(existing_obj.notes, "phystech")
      new_transfer_notes == Strip(row._TRANSFER_NOTES)
      keys ==
        (IF Truthy(new_title) /\ existing_obj.title # Some(new_title)
           THEN {"title"} ELSE {})
        \cup (IF existing_begins # new_begins THEN {"dates"} ELSE {})
        \cup (IF existing_extent_types # new_extent_types
                THEN {"extents"} ELSE {})
        \cup (IF Truthy(new_description) /\ existing_scope # Some(new_description)
                THEN {"description"} ELSE {})
        \cup (IF Truthy(new_transfer_notes)
                   /\ existing_phystech # Some(new_transfer_notes)
                THEN {"transfer_notes"} ELSE {})
  IN [k \in keys |->
        CASE k = "title" -> << existing_obj.title, Some(new_title) >>
          [] k = "dates" -> << existing_begins, new_begins >>
          [] k = "extents" -> << existing_extent_types, new_extent_types >>
          [] k = "description" -> << existing_scope, Some(new_description) >>
          [] k = "transfer_notes" -> << existing_phystech, Some(new_transfer_notes) >>]

\* detect_changes comparing the TITLE column as read, without strip()
detect_changes_TitleNotStripped(existing_obj, row) ==
  LET new_title == row.TITLE
      existing_begins == Begins(existing_obj.dates)
      new_begins == Begins(create_date_objects(row))
      existing_extent_types == ExtentTypes(existing_obj.extents)
      new_extent_types == ExtentTypes(create_extent_objects(row))
      existing_scope == get_note_content(existing_obj.notes, "scopecontent")
      new_description == Strip(row.DESCRIPTION)
      keys ==
        (IF Truthy(new_title) /\ existing_obj.title # Some(new_title)
           THEN {"title"} ELSE {})
        \cup (IF existing_begins # new_begins THEN {"dates"} ELSE {})
        \cup (IF existing_extent_types # new_extent_types
                THEN {"extents"} ELSE {})
        \cup (IF Truthy(new_description) /\ existing_scope # Some(new_description)
                THEN {"description"} ELSE {})
  IN [k \in keys |->
        CASE k = "title" -> << existing_obj.title, Some(new_title) >>
          [] k = "dates" -> << existing_begins, new_begins >>
          [] k = "extents" -> << existing_extent_types, new_extent_types >>
          [] k = "description" -> << existing_scope, Some(new_description) >>]

detect_changes(existing_obj, row) ==
  LET new_title == Strip(row.TITLE)
      existing_begins == Begins(existing_obj.dates)
      new_begins == Begins(create_date_objects(row))
      existing_extent_types == ExtentTypes(existing_obj.extents)
      new_extent_types == ExtentTypes(create_extent_objects(row))
      existing_scope == get_note_content(existing_obj.notes, "scopecontent")
      new_description == Strip(row.DESCRIPTION)
      keys ==
        (IF Truthy(new_title) /\ existing_obj.title # Some(new_title)
           THEN {"title"} ELSE {})
        \cup (IF existing_begins # new_begins THEN {"dates"} ELSE {})
        \cup (IF existing_extent_types # new_extent_types
                THEN {"extents"} ELSE {})
        \cup (IF Truthy(new_description) /\ existing_scope # Some(new_description)
                THEN {"description"} ELSE {})
  IN [k \in keys |->
        CASE k = "title" -> << existing_obj.title, Some(new_title) >>
          [] k = "dates" -> << existing_begins, new_begins >>
          [] k = "extents" -> << existing_extent_types, new_extent_types >>
          [] k = "description" -> << existing_scope, Some(new_description) >>]

\* "if not changes": an empty dict is falsy
NoChanges == [k \in {} |-> << >>]

\* ------------------------------------------------------------------------
\* Payloads
\* ------------------------------------------------------------------------
SelectNotes(notes, types) == SelectSeq(notes, LAMBDA n : n.type \notin types)

\* MergedRecord that replaces the whole notes list by the row's notes
MergedRecord_NotesReplaced(existing_obj, row) ==
  LET title == Strip(row.TITLE)
      dates == create_date_objects(row)
      extents == create_extent_objects(row)
      new_notes == create_notes(row)
  IN [existing_obj EXCEPT
        !.title = IF Truthy(title) THEN Some(title) ELSE @,
        !.dates = IF dates # << >> THEN dates ELSE @,
        !.extents = IF extents # << >> THEN extents ELSE @,
        !.notes = IF new_notes # << >> THEN new_notes ELSE @]

\* update_archival_object, "Apply changes": the record that is submitted
MergedRecord(existing_obj, row) ==
  LET title == Strip(row.TITLE)
      dates == create_date_objects(row)
      extents == create_extent_objects(row)
      new_notes == create_notes(row)
      existing_note_types == { new_notes[i].type : i \in DOMAIN new_notes }
  IN [existing_obj EXCEPT
        !.title = IF Truthy(title) THEN Some(title) ELSE @,
        !.dates = IF dates # << >> THEN dates ELSE @,
        !.extents = IF extents # << >> THEN extents ELSE @,
        !.notes = IF new_notes # << >>
                    THEN SelectNotes(@, existing_note_types) \o new_notes
                    ELSE @]

Instance(container_uri) ==
  [instance_type |-> "Moving Images (Video)", jsonmodel_type |-> "instance",
   top_container |-> container_uri]

\* AoData without the "parent" key
AoData_NoParent(row, parent_uri) ==
  LET title == Strip(row.TITLE)
      catalog_number == Strip(row.CATALOG_NUMBER)
  IN [jsonmodel_type |-> "archival_object",
      uri |-> None,
      parent |-> None,
      level |-> "item",
      publish |-> TRUE,
      title |-> Some(IF Truthy(title) THEN title ELSE row.CATALOG_NUMBER),
      component_id |-> IF Truthy(catalog_number) THEN Some(catalog_number) ELSE None,
      dates |-> create_date_objects(row),
      extents |-> create_extent_objects(row),
      notes |-> create_notes(row),
      instances |-> << >>]

\* create_archival_object: ao_data before the instances are attached
AoData(row, parent_uri) ==
  LET title == Strip(row.TITLE)
      catalog_number == Strip(row.CATALOG_NUMBER)
  IN [jsonmodel_type |-> "archival_object",
      uri |-> None,
      parent |-> Some(parent_uri),
      level |-> "item",
      publish |-> TRUE,
      title |-> Some(IF Truthy(title) THEN title ELSE row.CATALOG_NUMBER),
      component_id |-> IF Truthy(catalog_number) THEN Some(catalog_number) ELSE None,
      dates |-> create_date_objects(row),
      extents |-> create_extent_objects(row),
      notes |-> create_notes(row),
      instances |-> << >>]

\* ------------------------------------------------------------------------
\* JSON bodies the repository can answer with.  `json' names the shape;
\* an absent key is None.
\* ------------------------------------------------------------------------
EmptyJson == [json |-> "empty"]
\* bool(result) of an Optional[Dict]: None and {} are falsy
Ok(opt) == opt # None /\ opt[1].json # "empty"

SearchBody(n, items) == [json |-> "search", total_hits |-> n, results |-> items]
Hit(uri) == [uri |-> Some(uri)]
HitNoUri == [uri |-> None]

EnumBody(has, values) ==
  [json |-> "enum", has_enumeration_values |-> has, values |-> values,
   entries_have_value |-> TRUE]
\* an enumeration whose entries carry no 'value' key
KeylessEnumBody == [EnumBody(TRUE, << >>) EXCEPT !.entries_have_value = FALSE]
LiveExtentTypes == << S("VHS"), S("DVD") >>

UriBody(uri) == [json |-> "uri", uri |-> uri]


\* ------------------------------------------------------------------------
\* Inputs: CSV rows and stored records
\* ------------------------------------------------------------------------
Row(cat, title, parent, cdate, edate, bdate, fmt, desc, tn) ==
  [CATALOG_NUMBER |-> cat, TITLE |-> title, ASpace_Parent_RefID |-> parent,
   Creation_or_Recording_Date |-> cdate, Edit_Date |-> edate,
   Broadcast_Date |-> bdate, Original_Format |-> fmt, DESCRIPTION |-> desc,
   _TRANSFER_NOTES |-> tn]

Date_8_1_1982 == D(Num("/", 8, 1, 1, 1, 1982, 4))
Date_1982_08_01 == D(Num("-", 1982, 4, 8, 2, 1, 2))
Date_13_1_1982 == D(Num("/", 13, 2, 1, 1, 1982, 4))
NotADate == D(JunkCore)

BaseRow ==
  Row(Padded("JPC_AV_00001"), S("Test Reel"), S("abc123"),
      Date_8_1_1982, EmptyDate, EmptyDate, S("VHS"), EmptyStr, EmptyStr)

\* rows of the batch: the base row and its one-field variations
BatchRows ==
  { BaseRow }
  \cup { [BaseRow EXCEPT !.CATALOG_NUMBER = c] : c \in {EmptyStr, BlankStr} }
  \cup { [BaseRow EXCEPT !.Original_Format = f] : f \in {EmptyStr, S("Betacam")} }
  \cup { [BaseRow EXCEPT !.ASpace_Parent_RefID = EmptyStr] }


OddNote == NoteMultipart("odd", S("general note"))

\* the record the create path stores for a row
RecordOf(row, uri) ==
  [AoData(row, "/ao/9") EXCEPT !.uri = Some(uri)] @@ [json |-> "record"]

\* records the repository may hold for the catalog number (batch runs)
ExistingRecords ==
  { RecordOf(BaseRow, "/ao/1"),
    [RecordOf(BaseRow, "/ao/1") EXCEPT !.title = Some(S("Old Title")),
                                       !.notes = << OddNote >>] }

\* ------------------------------------------------------------------------
\* State
\* ------------------------------------------------------------------------
VARIABLES
  mode,      \* duplicate_mode of the run
  dry_run,   \* the dry-run flag of the run
  pc,        \* process_csv_file: "loop", "call" (inside process_csv_row,
             \* waiting for make_request), "returned", "raised"
  site,      \* the call site of the request in flight ("direct": a
             \* make_request call on its own)
  row_num,   \* rows read so far
  row,       \* the row being processed (the last row read)
  result,    \* process_csv_row's result dict of that row
  results,   \* the results list, projected to (row_number, status)
  summary,   \* the summary counters
  loc,       \* locals of process_csv_row / update / create for the row
  client,    \* ArchivesSpaceClient: session, headers, _valid_extent_types
  req,       \* arguments of the make_request call in flight
  phase,     \* make_request: "idle", "send", "login", "done"
  ret,       \* value returned by a make_request call made on its own
  response,  \* the response that ended a make_request call made on its own
  hist,      \* per call: HTTP attempts and login calls made, token sent
  issued,    \* API requests sent while processing the current row
  exc,       \* exception propagating out of process_csv_file
  stored,    \* the record the repository holds for the catalog number
             \* (update passes against a repository that stores what it is sent)
  exit_code, \* main: the exit status of the process, None while it runs
  sleeps,    \* pacing delays (time.sleep(1)) made by process_csv_file
  dirrun     \* aspace-rename-directories.py: its options, the directories
             \* on disk, directory_list and what was done to each directory

vars == << mode, dry_run, pc, site, row_num, row, result, results, summary,
           loc, client, req, phase, ret, response, hist, issued, exc, stored,
           exit_code, sleeps, dirrun >>

Tokens == {1, 2}
NetworkError == 0

NoRow ==
  Row(EmptyStr, EmptyStr, EmptyStr, EmptyDate, EmptyDate, EmptyDate,
      EmptyStr, EmptyStr, EmptyStr)
NoLoc ==
  [search |-> None, existing |-> FALSE, existing_uri |-> None,
   existing_obj |-> None, changes |-> NoChanges, parent_uri |-> None,
   ao_data |-> None, enum_result |-> None, container_result |-> None,
   create_result |-> None, warned |-> FALSE]
\* the import script has no directory run
NoDirRun == [single |-> FALSE]
NoReq == [method |-> "", endpoint |-> None, data |-> None, retry_count |-> 0]
NoResponse == [status |-> NetworkError, body |-> EmptyJson]
\* attempts: requests.get/post calls made by the call; logins: login() calls
\* made by the call; relogged: the last attempt followed a successful
\* re-login; token: the session token the last attempt sent; stale: the
\* token sent by the attempt that was answered 412
NoHist ==
  [attempts |-> 0, logins |-> 0, relogged |-> FALSE, token |-> None,
   stale |-> None]

\* PendingResult with rows numbered from 0
PendingResult_ZeroBased(r, n) ==
  [row_number |-> n - 1, catalog_number |-> r.CATALOG_NUMBER, title |-> r.TITLE,
   status |-> "pending", message |-> "", uri |-> None, changes |-> NoChanges]

PendingResult(r, n) ==
  [row_number |-> n, catalog_number |-> r.CATALOG_NUMBER, title |-> r.TITLE,
   status |-> "pending", message |-> "", uri |-> None, changes |-> NoChanges]

NewSummary ==
  [total_rows |-> 0, created |-> 0, updated |-> 0, unchanged |-> 0,
   failed |-> 0, skipped |-> 0]

LoggedInClient ==
  [session |-> Some(1), headers |-> Some(1), valid_extent_types |-> None]

Init ==
  /\ mode \in {"skip", "update", "fail"}
  /\ dry_run \in BOOLEAN
  /\ pc = "loop"
  /\ site = ""
  /\ row_num = 0
  /\ row = NoRow
  /\ result = PendingResult(NoRow, 0)
  /\ results = << >>
  /\ summary = NewSummary
  /\ loc = NoLoc
  /\ client = LoggedInClient
  /\ req = NoReq
  /\ phase = "idle"
  /\ ret = None
  /\ response = NoResponse
  /\ hist = NoHist
  /\ issued = {}
  /\ exc = None
  /\ stored = None
  /\ exit_code = None
  /\ sleeps = 0
  /\ dirrun = NoDirRun

\* ------------------------------------------------------------------------
\* The repository: what it may answer to a request
\* ------------------------------------------------------------------------
SearchComponent == "/search?q=component_id"
SearchRefId == "/search?q=ref_id"
Enumerations == "/config/enumerations/14"
TopContainers == "/top_containers"
ArchivalObjects == "/archival_objects"

SuccessBodies(r) ==
  IF r.endpoint = None THEN {}
  ELSE LET e == r.endpoint[1] IN
    CASE r.method = "GET" /\ e = Enumerations ->
           { EnumBody(TRUE, LiveExtentTypes), EnumBody(FALSE, << >>),
             EnumBody(TRUE, << >>), KeylessEnumBody }
      [] r.method = "GET" /\ e = SearchComponent ->
           { SearchBody(0, << >>), SearchBody(1, << Hit("/ao/1") >>),
             SearchBody(2, << Hit("/ao/1"), Hit("/ao/2") >>),
             SearchBody(1, << HitNoUri >>), SearchBody(1, << >>) }
      [] r.method = "GET" /\ e = SearchRefId ->
           { SearchBody(0, << >>), SearchBody(1, << Hit("/ao/9") >>),
             SearchBody(1, << HitNoUri >>) }
      [] r.method = "GET" /\ e = "/ao/9" ->
           { UriBody(Some("/ao/9")), UriBody(None), EmptyJson }
      [] r.method = "GET" /\ e \in {"/ao/1", "/ao/2"} ->
           ExistingRecords \cup { EmptyJson }
      [] r.method = "POST" /\ e = TopContainers ->
           { UriBody(Some("/tc/1")), UriBody(None) }
      [] r.method = "POST" /\ e = ArchivalObjects ->
           { UriBody(Some("/ao/3")) }
      [] r.method = "POST" /\ e \in {"/ao/1", "/ao/2"} ->
           { UriBody(Some(e)), UriBody(None) }
      [] OTHER -> {}

Responses(r) ==
  { [status |-> 200, body |-> b] : b \in SuccessBodies(r) }
  \cup { [status |-> 201, body |-> b] :
           b \in IF r.endpoint = Some(ArchivalObjects) THEN SuccessBodies(r) ELSE {} }
  \cup { [status |-> st, body |-> EmptyJson] : st \in {412, 500, NetworkError} }

\* the answers to POST /users/{username}/login: a session token, a refusal
\* or a network error
LoginResponses(c) ==
  { [status |-> 200, session |-> Some(t)] : t \in Tokens \ Range(c.session) }
  \cup { [status |-> st, session |-> None] : st \in {403, NetworkError} }

\* ------------------------------------------------------------------------
\* ArchivesSpaceClient
\* ------------------------------------------------------------------------
\* the answers to POST /logout
LogoutResponses ==
  { [status |-> st, body |-> EmptyJson] : st \in {200, 500, NetworkError} }

\* logout without the "if not self.session" test
logout_NoGuard(c, resp) ==
  IF resp.status = 200
    THEN [ok |-> TRUE, sent |-> TRUE,
          client |-> [c EXCEPT !.session = None, !.headers = None]]
  ELSE [ok |-> FALSE, sent |-> TRUE, client |-> c]

\* ArchivesSpaceClient.logout: its return value, whether it sent the
\* request, and the client it leaves
logout(c, resp) ==
  IF c.session = None
    THEN [ok |-> TRUE, sent |-> FALSE, client |-> c]
  ELSE IF resp.status = 200
    THEN [ok |-> TRUE, sent |-> TRUE,
          client |-> [c EXCEPT !.session = None, !.headers = None]]
  ELSE [ok |-> FALSE, sent |-> TRUE, client |-> c]

\* login that stores the session but leaves the request headers alone
login_StaleHeaders(c, resp) ==
  IF resp.status = 200
  THEN [ok |-> TRUE, client |-> [c EXCEPT !.session = resp.session]]
  ELSE [ok |-> FALSE, client |-> c]

\* login(): [ok, client] for a response of the server
login(c, resp) ==
  IF resp.status = 200
  THEN [ok |-> TRUE,
        client |-> [c EXCEPT !.session = resp.session, !.headers = resp.session]]
  ELSE [ok |-> FALSE, client |-> c]

\* AfterResponse with "<=" for "<" in the retry tests
AfterResponse_OneRetryMore(status, retry_count) ==
  IF status = NetworkError
    THEN (IF retry_count <= RETRY_ATTEMPTS THEN "retry" ELSE "return_none")
  ELSE IF status \in {200, 201} THEN "return_body"
  ELSE IF status = 412 /\ retry_count <= RETRY_ATTEMPTS THEN "relogin"
  ELSE IF retry_count <= RETRY_ATTEMPTS THEN "retry" ELSE "return_none"

\* what make_request does with a response: "return_body", "relogin",
\* "retry" or "return_none"
AfterResponse(status, retry_count) ==
  IF status = NetworkError
    THEN (IF retry_count < RETRY_ATTEMPTS THEN "retry" ELSE "return_none")
  ELSE IF status \in {200, 201} THEN "return_body"
  ELSE IF status = 412 /\ retry_count < RETRY_ATTEMPTS THEN "relogin"
  ELSE IF retry_count < RETRY_ATTEMPTS THEN "retry" ELSE "return_none"

\* "if self.login(): ... return self.make_request(...)"; otherwise the
\* function falls off its end and returns None
AfterLogin(logged_in) == IF logged_in THEN "retry" ELSE "return_none"

StartCall(s, method, endpoint, data) ==
  /\ pc' = "call"
  /\ site' = s
  /\ req' = [method |-> method, endpoint |-> endpoint, data |-> data,
             retry_count |-> 0]
  /\ phase' = "send"
  /\ hist' = NoHist

\* ------------------------------------------------------------------------
\* process_csv_row, cut at its make_request calls.  Each segment yields a
\* step: the next request ("call"), the returned result ("return") or an
\* exception raised inside the try block ("raise").
\* ------------------------------------------------------------------------
Call(s, method, endpoint, data, l) ==
  [t |-> "call", site |-> s, method |-> method, endpoint |-> endpoint,
   data |-> data, loc |-> l]
Return(status, message, uri, changes, l) ==
  [t |-> "return", status |-> status, message |-> message, uri |-> uri,
   changes |-> changes, loc |-> l]
Raise(e, l) == [t |-> "raise", e |-> e, loc |-> l]

\* the "# Check for duplicate" call
CheckDuplicate(l) == Call("dup", "GET", Some(SearchComponent), None, l)

\* ValidateExtent that lets every value pass
ValidateExtent_AlwaysValid(r, types, l) == CheckDuplicate(l)

\* validate_extent_type once _valid_extent_types is set, then the
\* duplicate check
ValidateExtent(r, types, l) ==
  IF Strip(r.Original_Format) \in Range(types)
  THEN CheckDuplicate(l)
  ELSE Return("error", "Invalid extent type", None, NoChanges, l)

\* SegStart testing the catalog number as read, without strip()
SegStart_NoStrip(r, c) ==
  LET catalog_number == r.CATALOG_NUMBER
      original_format == Strip(r.Original_Format)
  IN IF ~Truthy(catalog_number)
       THEN Return("skipped", "Missing catalog number", None, NoChanges, NoLoc)
     ELSE IF Truthy(original_format)
       THEN (IF c.valid_extent_types = None
               THEN Call("enum", "GET", Some(Enumerations), None, NoLoc)
               ELSE ValidateExtent(r, c.valid_extent_types[1], NoLoc))
     ELSE CheckDuplicate(NoLoc)

\* lines 744-764, up to the first request
SegStart(r, c) ==
  LET catalog_number == Strip(r.CATALOG_NUMBER)
      original_format == Strip(r.Original_Format)
  IN IF ~Truthy(catalog_number)
       THEN Return("skipped", "Missing catalog number", None, NoChanges, NoLoc)
     ELSE IF Truthy(original_format)
       THEN (IF c.valid_extent_types = None
               THEN Call("enum", "GET", Some(Enumerations), None, NoLoc)
               ELSE ValidateExtent(r, c.valid_extent_types[1], NoLoc))
     ELSE CheckDuplicate(NoLoc)

\* get_extent_types with nothing to fall back on
get_extent_types_NoFallback(result_) ==
  IF Ok(result_) /\ result_[1].has_enumeration_values
       /\ result_[1].entries_have_value
  THEN result_[1].values
  ELSE << >>

\* get_extent_types: the live values, or the static list; a KeyError from
\* v['value'] is swallowed by the bare except
get_extent_types(result_) ==
  IF Ok(result_) /\ result_[1].has_enumeration_values
       /\ result_[1].entries_have_value
  THEN result_[1].values
  ELSE VALID_EXTENT_TYPES

\* check_component_unique_id after its request: (exists, uri), or the
\* IndexError of results[0].  `warned': a warning was logged about the
\* search; neither the function nor its caller logs one.
check_component_unique_id(result_) ==
  IF Ok(result_) /\ result_[1].total_hits > 0
  THEN (IF result_[1].results = << >>
          THEN [raised |-> TRUE, existing |-> FALSE, uri |-> None,
                warned |-> FALSE]
          ELSE [raised |-> FALSE, existing |-> TRUE,
                uri |-> result_[1].results[1].uri, warned |-> FALSE])
  ELSE [raised |-> FALSE, existing |-> FALSE, uri |-> None, warned |-> FALSE]

\* "# Parent RefID is REQUIRED" up to the parent search
SegParent(r, l) ==
  LET parent_ref_id == Strip(r.ASpace_Parent_RefID) IN
  IF ~Truthy(parent_ref_id)
  THEN Return("error", "Missing Parent RefID", None, NoChanges, l)
  ELSE Call("parent_search", "GET", Some(SearchRefId), None, l)

\* SegAfterDup with the skip branch missing: a match in skip mode runs on
\* to the parent lookup
SegAfterDup_NoSkipBranch(r, m, result_) ==
  LET chk == check_component_unique_id(result_)
      l == [NoLoc EXCEPT !.search = result_, !.existing = chk.existing,
                         !.existing_uri = chk.uri, !.warned = chk.warned]
  IN IF chk.raised THEN Raise("IndexError", [NoLoc EXCEPT !.search = result_])
     ELSE IF chk.existing /\ m # "skip"
       THEN CASE m = "fail" -> Raise("Duplicate component ID", l)
              [] m = "update" -> Call("fetch", "GET", chk.uri, None, l)
     ELSE SegParent(r, l)

\* lines 764-810: after the duplicate check
SegAfterDup(r, m, result_) ==
  LET chk == check_component_unique_id(result_)
      l == [NoLoc EXCEPT !.search = result_, !.existing = chk.existing,
                         !.existing_uri = chk.uri, !.warned = chk.warned]
  IN IF chk.raised THEN Raise("IndexError", [NoLoc EXCEPT !.search = result_])
     ELSE IF chk.existing
       THEN CASE m = "fail" -> Raise("Duplicate component ID", l)
              [] m = "skip" ->
                   Return("skipped", "Duplicate - skipped", None, NoChanges, l)
              [] m = "update" -> Call("fetch", "GET", chk.uri, None, l)
     ELSE SegParent(r, l)

\* UpdateFetchFailed that reports the row as unchanged
UpdateFetchFailed_Unchanged(l) ==
  Return("unchanged", "No changes needed", l.existing_uri, NoChanges, l)

\* "if not existing_obj: return None, {}" and the row's "Failed to update"
UpdateFetchFailed(l) ==
  Return("error", "Failed to update", None, NoChanges, l)

\* SegAfterFetch without the "if not changes" early return
SegAfterFetch_NoEarlyReturn(r, dry, result_, l) ==
  IF ~Ok(result_)
    THEN UpdateFetchFailed(l)
  ELSE
    LET existing_obj == result_[1]
        changes == detect_changes(existing_obj, r)
        l2 == [l EXCEPT !.existing_obj = Some(existing_obj), !.changes = changes]
    IN IF dry
         THEN Return("updated", "Updated", l.existing_uri, changes, l2)
       ELSE Call("update", "POST", l.existing_uri,
                 Some(MergedRecord(existing_obj, r)), l2)

\* update_archival_object after the fetch (lines 683-716) and the branch of
\* process_csv_row on its result
SegAfterFetch(r, dry, result_, l) ==
  IF ~Ok(result_)
    THEN UpdateFetchFailed(l)
  ELSE
    LET existing_obj == result_[1]
        changes == detect_changes(existing_obj, r)
        l2 == [l EXCEPT !.existing_obj = Some(existing_obj), !.changes = changes]
    IN IF changes = NoChanges
         THEN Return("unchanged", "No changes needed", l.existing_uri, NoChanges, l2)
       ELSE IF dry
         THEN Return("updated", "Updated", l.existing_uri, changes, l2)
       ELSE Call("update", "POST", l.existing_uri,
                 Some(MergedRecord(existing_obj, r)), l2)

\* update_archival_object after the POST (lines 720-725) and the branch of
\* process_csv_row on its result (lines 781-800)
SegAfterUpdate(result_, l) ==
  IF Ok(result_)
  THEN Return("updated", "Updated",
              IF result_[1].uri # None THEN result_[1].uri ELSE l.existing_uri,
              l.changes, l)
  ELSE Return("error", "Failed to update", None, NoChanges, l)

\* get_parent_object after its search
SegAfterParentSearch(r, result_, l) ==
  IF Ok(result_) /\ result_[1].total_hits > 0
  THEN (IF result_[1].results = << >> THEN Raise("IndexError", l)
        ELSE IF result_[1].results[1].uri = None THEN Raise("KeyError", l)
        ELSE Call("parent_get", "GET", result_[1].results[1].uri, None, l))
  ELSE Return("error", "Parent not found", None, NoChanges, l)

\* DryRunResult reported as a skipped row
DryRunResult_Skipped ==
  Return("skipped", "Would be created", Some("/dry_run"), NoChanges, NoLoc)

\* create_archival_object once ao_data is built: dry run, or the instances
DryRunResult == Return("created", "Would be created", Some("/dry_run"), NoChanges, NoLoc)

\* SegAfterParentGet with create_instances called whatever dry_run is
SegAfterParentGet_IgnoresDryRun(r, dry, result_, l) ==
  IF ~Ok(result_)
    THEN Return("error", "Parent not found", None, NoChanges, l)
  ELSE IF result_[1].uri = None THEN Raise("KeyError", l)
  ELSE
    LET parent_uri == result_[1].uri[1]
        l2 == [l EXCEPT !.parent_uri = Some(parent_uri),
                        !.ao_data = Some(AoData(r, parent_uri))]
    IN Call("container", "POST", Some(TopContainers),
            Some([indicator |-> Strip(r.CATALOG_NUMBER), type |-> "AV Case"]),
            l2)

\* lines 811-818 and create_archival_object up to its first request
SegAfterParentGet(r, dry, result_, l) ==
  IF ~Ok(result_)
    THEN Return("error", "Parent not found", None, NoChanges, l)
  ELSE IF result_[1].uri = None THEN Raise("KeyError", l)
  ELSE
    LET parent_uri == result_[1].uri[1]
        l2 == [l EXCEPT !.parent_uri = Some(parent_uri),
                        !.ao_data = Some(AoData(r, parent_uri))]
    IN IF dry
         THEN [DryRunResult EXCEPT !.loc = l2]
         ELSE Call("container", "POST", Some(TopContainers),
                   Some([indicator |-> Strip(r.CATALOG_NUMBER), type |-> "AV Case"]),
                   l2)

\* SegAfterContainer that gives the row up when no container was created
SegAfterContainer_FailsRow(result_, l) ==
  IF ~Ok(result_)
    THEN Return("error", "Failed to create", None, NoChanges,
                [l EXCEPT !.container_result = Some(result_)])
  ELSE IF result_[1].uri = None THEN Raise("KeyError", l)
  ELSE
    LET instances == << Instance(result_[1].uri[1]) >>
        ao_data == [l.ao_data[1] EXCEPT !.instances = instances]
    IN Call("create", "POST", Some(ArchivalObjects), Some(ao_data),
            [l EXCEPT !.ao_data = Some(ao_data),
                      !.container_result = Some(result_)])

\* create_top_container / create_instances after the POST, then the POST
\* of the archival object
SegAfterContainer(result_, l) ==
  IF Ok(result_) /\ result_[1].uri = None THEN Raise("KeyError", l)
  ELSE
    LET instances == IF Ok(result_) THEN << Instance(result_[1].uri[1]) >> ELSE << >>
        ao_data == [l.ao_data[1] EXCEPT !.instances = instances]
    IN Call("create", "POST", Some(ArchivalObjects), Some(ao_data),
            [l EXCEPT !.ao_data = Some(ao_data),
                      !.container_result = Some(result_)])

\* SegAfterCreate that takes a null result for a created record
SegAfterCreate_AlwaysCreated(result_, l) ==
  LET l2 == [l EXCEPT !.create_result = Some(result_)] IN
  Return("created", "Created successfully", None, NoChanges, l2)

\* lines 665-670 and 820-830
SegAfterCreate(result_, l) ==
  LET l2 == [l EXCEPT !.create_result = Some(result_)] IN
  IF Ok(result_)
  THEN Return("created", "Created successfully", result_[1].uri, NoChanges, l2)
  ELSE Return("error", "Failed to create", None, NoChanges, l2)

\* ------------------------------------------------------------------------
\* process_csv_row's exit and the loop body of process_csv_file
\* ------------------------------------------------------------------------
\* process_csv_row_exit whose except clause records the message only
process_csv_row_exit_StatusNotSet(step, res) ==
  IF step.t = "raise"
  THEN [raised |-> FALSE, e |-> step.e,
        result |-> [res EXCEPT !.message = step.e]]
  ELSE [raised |-> FALSE, e |-> "",
        result |-> [res EXCEPT !.status = step.status, !.message = step.message,
                               !.uri = step.uri, !.changes = step.changes]]

\* how process_csv_row leaves: its "except Exception" clause turns an
\* exception raised in the try block into an error result
process_csv_row_exit(step, res) ==
  IF step.t = "raise"
  THEN [raised |-> FALSE, e |-> step.e,
        result |-> [res EXCEPT !.status = "error", !.message = step.e]]
  ELSE [raised |-> FALSE, e |-> "",
        result |-> [res EXCEPT !.status = step.status, !.message = step.message,
                               !.uri = step.uri, !.changes = step.changes]]

\* the entry of the results list kept by the model
Entry(res) == [row_number |-> res.row_number, status |-> res.status]

\* Count without the branch for 'skipped'
Count_SkippedUncounted(sum, status) ==
  CASE status = "created" -> [sum EXCEPT !.created = @ + 1]
    [] status = "updated" -> [sum EXCEPT !.updated = @ + 1]
    [] status = "unchanged" -> [sum EXCEPT !.unchanged = @ + 1]
    [] status = "error" -> [sum EXCEPT !.failed = @ + 1]
    [] OTHER -> sum

\* the if/elif chain on result["status"]
Count(sum, status) ==
  CASE status = "created" -> [sum EXCEPT !.created = @ + 1]
    [] status = "updated" -> [sum EXCEPT !.updated = @ + 1]
    [] status = "unchanged" -> [sum EXCEPT !.unchanged = @ + 1]
    [] status = "error" -> [sum EXCEPT !.failed = @ + 1]
    [] status = "skipped" -> [sum EXCEPT !.skipped = @ + 1]
    [] OTHER -> sum

\* "except Exception as row_error": does the loop re-raise?
Reraises(m, e) == m = "fail" /\ e = "Duplicate component ID"

\* the dict the loop appends for an exception that escaped process_csv_row
ErrorResult(res, e, reraised) ==
  [res EXCEPT !.status = "error",
              !.message = IF reraised THEN e ELSE "Unexpected error"]

\* Pace that sleeps in a dry run too
Pace_IgnoresDryRun(n, row_number, dry) ==
  IF row_number % BATCH_SIZE = 0 THEN n + 1 ELSE n

\* "if row_num % BATCH_SIZE == 0 and not dry_run: time.sleep(1)"
Pace(n, row_number, dry) ==
  IF row_number % BATCH_SIZE = 0 /\ ~dry THEN n + 1 ELSE n

\* the loop body after process_csv_row has left (lines 865-913)
FinishRow(step, res, sum) ==
  LET out == process_csv_row_exit(step, res) IN
  /\ IF ~out.raised
       THEN /\ result' = out.result
            /\ results' = Append(results, Entry(out.result))
            /\ summary' = Count(sum, out.result.status)
            /\ sleeps' = Pace(sleeps, res.row_number, dry_run)
            /\ pc' = "loop"
            /\ exc' = exc
       ELSE /\ result' = ErrorResult(res, out.e, Reraises(mode, out.e))
            /\ results' = Append(results, Entry(result'))
            /\ summary' = [sum EXCEPT !.failed = @ + 1]
            /\ sleeps' = sleeps
            /\ pc' = IF Reraises(mode, out.e) THEN "raised" ELSE "loop"
            /\ exc' = IF Reraises(mode, out.e) THEN Some(out.e) ELSE exc
  /\ site' = ""
  /\ req' = NoReq
  /\ phase' = "idle"
  /\ hist' = NoHist

\* carry on with the step a segment yields
Continue(step, res, sum) ==
  /\ loc' = step.loc
  /\ IF step.t = "call"
       THEN /\ StartCall(step.site, step.method, step.endpoint, step.data)
            /\ result' = res
            /\ summary' = sum
            /\ UNCHANGED << results, exc, sleeps >>
       ELSE FinishRow(step, res, sum)

\* the reader yields the next row: the head of the loop body and
\* process_csv_row up to its first request
ReadRow ==
  /\ pc = "loop" /\ row_num < NumRows
  /\ \E r \in BatchRows :
       /\ row' = r
       /\ row_num' = row_num + 1
       /\ issued' = {}
       /\ Continue(SegStart(r, client), PendingResult(r, row_num + 1),
                   [summary EXCEPT !.total_rows = @ + 1])
  /\ UNCHANGED << mode, dry_run, client, ret, response, stored, exit_code,
                  dirrun >>

\* open() or the reader raises: "except Exception as e: ... raise"
ReadError ==
  /\ pc = "loop" /\ row_num < NumRows
  /\ pc' = "raised"
  /\ exc' = Some("Error reading CSV file")
  /\ UNCHANGED << mode, dry_run, site, row_num, row, result, results, summary,
                  loc, client, req, phase, ret, response, hist, issued, stored,
                  exit_code, sleeps, dirrun >>

\* the reader is exhausted: process_csv_file returns
EndOfFile ==
  /\ pc = "loop" /\ row_num = NumRows
  /\ pc' = "returned"
  /\ UNCHANGED << mode, dry_run, site, row_num, row, result, results, summary,
                  loc, client, req, phase, ret, response, hist, issued, exc,
                  stored, exit_code, sleeps, dirrun >>

\* the code that runs when the request of call site s returns result_
NextStep(s, result_, r, m, dry, l) ==
  CASE s = "enum" ->
         ValidateExtent(r, get_extent_types(result_),
                        [l EXCEPT !.enum_result = Some(result_)])
    [] s = "dup" -> SegAfterDup(r, m, result_)
    [] s = "fetch" -> SegAfterFetch(r, dry, result_, l)
    [] s = "update" -> SegAfterUpdate(result_, l)
    [] s = "parent_search" -> SegAfterParentSearch(r, result_, l)
    [] s = "parent_get" -> SegAfterParentGet(r, dry, result_, l)
    [] s = "container" -> SegAfterContainer(result_, l)
    [] s = "create" -> SegAfterCreate(result_, l)

\* the same for the row, mode, flag and locals of the run
AfterCall(s, result_) == NextStep(s, result_, row, mode, dry_run, loc)

\* validate_extent_type stores what get_extent_types returned
ClientAfter(s, result_, c) ==
  IF s = "enum"
  THEN [c EXCEPT !.valid_extent_types = Some(get_extent_types(result_))]
  ELSE c

\* make_request returns result_ to its caller, which runs on to its next
\* request or to the end of the row.  A call made on its own (site
\* "direct") just ends.
Resume(result_, c, resp, h) ==
  IF site = "direct"
  THEN /\ phase' = "done"
       /\ ret' = result_
       /\ client' = c
       /\ response' = resp
       /\ hist' = h
       /\ UNCHANGED << pc, site, req, loc, result, results, summary, exc,
                       sleeps >>
  ELSE /\ client' = ClientAfter(site, result_, c)
       /\ Continue(AfterCall(site, result_), result, summary)
       /\ UNCHANGED << ret, response >>

\* one requests.get / requests.post of make_request and the branch on its
\* outcome
HttpAttempt ==
  /\ pc = "call" /\ phase = "send"
  /\ \E resp \in Responses(req) :
       LET move == AfterResponse(resp.status, req.retry_count)
           h == [hist EXCEPT !.attempts = @ + 1, !.token = client.headers]
       IN CASE move = "return_body" -> Resume(Some(resp.body), client, resp, h)
            [] move = "return_none" -> Resume(None, client, resp, h)
            [] move = "relogin" ->
                 /\ phase' = "login"
                 /\ hist' = [h EXCEPT !.relogged = FALSE, !.stale = client.headers]
                 /\ UNCHANGED << pc, site, req, ret, response, client, loc,
                                 result, results, summary, exc, sleeps >>
            [] move = "retry" ->
                 /\ phase' = "send"
                 /\ hist' = [h EXCEPT !.relogged = FALSE]
                 /\ req' = [req EXCEPT !.retry_count = @ + 1]
                 /\ UNCHANGED << pc, site, ret, response, client, loc, result,
                                 results, summary, exc, sleeps >>
  /\ issued' = issued \cup { [method |-> req.method, endpoint |-> req.endpoint] }
  /\ UNCHANGED << mode, dry_run, row_num, row, stored, exit_code, dirrun >>

\* ArchivesSpaceClient.login as called by make_request on status 412, and
\* the branch on its outcome
Login ==
  /\ pc = "call" /\ phase = "login"
  /\ \E lr \in LoginResponses(client) :
       LET l == login(client, lr)
           h == [hist EXCEPT !.logins = @ + 1]
       IN IF AfterLogin(l.ok) = "retry"
            THEN /\ phase' = "send"
                 /\ client' = l.client
                 /\ hist' = [h EXCEPT !.relogged = TRUE]
                 /\ req' = [req EXCEPT !.retry_count = @ + 1]
                 /\ UNCHANGED << pc, site, ret, response, loc, result,
                                 results, summary, exc, sleeps >>
            ELSE Resume(None, l.client, NoResponse, h)
  /\ UNCHANGED << mode, dry_run, row_num, row, issued, stored, exit_code, dirrun >>

\* ------------------------------------------------------------------------
\* main, after process_csv_file has returned or raised
\* ------------------------------------------------------------------------
\* "if summary['failed'] > 0" with a different threshold
HasFailures_MoreThanOne(sum) == sum.failed > 1

\* "if summary['failed'] > 0"
HasFailures(sum) == sum.failed > 0

\* main whose "except Exception" branch exits without client.logout()
LogoutAndExit_NotWhenFatal(code) ==
  IF code = 1
    THEN /\ pc' = "exited"
         /\ exit_code' = Some(code)
         /\ UNCHANGED << mode, dry_run, site, row_num, row, result, results,
                         summary, loc, client, req, phase, ret, response, hist,
                         issued, exc, stored, sleeps, dirrun >>
    ELSE /\ \E resp \in LogoutResponses :
              \E out \in { logout(client, resp) } :
                /\ client' = out.client
                /\ ret' = Some(out.ok)
                /\ response' = IF out.sent THEN resp ELSE NoResponse
                /\ hist' = [NoHist EXCEPT !.attempts = IF out.sent THEN 1 ELSE 0,
                                          !.token = IF out.sent THEN client.headers ELSE None]
         /\ phase' = "logout"
         /\ pc' = "exited"
         /\ exit_code' = Some(code)
         /\ UNCHANGED << mode, dry_run, site, row_num, row, result, results,
                         summary, loc, req, issued, exc, stored, sleeps, dirrun >>

\* client.logout() followed by the end of the process with status `code'
LogoutAndExit(code) ==
  /\ \E resp \in LogoutResponses :
       \E out \in { logout(client, resp) } :
         /\ client' = out.client
         /\ ret' = Some(out.ok)
         /\ response' = IF out.sent THEN resp ELSE NoResponse
         /\ hist' = [NoHist EXCEPT !.attempts = IF out.sent THEN 1 ELSE 0,
                                   !.token = IF out.sent THEN client.headers ELSE None]
  /\ phase' = "logout"
  /\ pc' = "exited"
  /\ exit_code' = Some(code)
  /\ UNCHANGED << mode, dry_run, site, row_num, row, result, results, summary,
                  loc, req, issued, exc, stored, sleeps, dirrun >>

\* lines 1159-1161: rows failed
MainFailed == pc = "returned" /\ HasFailures(summary) /\ LogoutAndExit(2)

\* lines 1163-1167: process_csv_file raised
MainFatal == pc = "raised" /\ LogoutAndExit(1)

\* lines 1169-1171: main runs to its end
MainDone == pc = "returned" /\ ~HasFailures(summary) /\ LogoutAndExit(0)

Next ==
  \/ ReadRow
  \/ ReadError
  \/ EndOfFile
  \/ HttpAttempt
  \/ Login
  \/ MainFailed
  \/ MainFatal
  \/ MainDone

Spec == Init /\ [][Next]_vars

\* ------------------------------------------------------------------------
\* A make_request call on its own
\* ------------------------------------------------------------------------
DirectRequests ==
  { [method |-> "GET", endpoint |-> Some(SearchComponent), data |-> None,
     retry_count |-> 0],
    [method |-> "GET", endpoint |-> Some("/ao/1"), data |-> None,
     retry_count |-> 0],
    [method |-> "POST", endpoint |-> Some(ArchivalObjects),
     data |-> Some(AoData(BaseRow, "/ao/9")), retry_count |-> 0] }

InitReq ==
  /\ mode = "skip"
  /\ dry_run = FALSE
  /\ pc = "call"
  /\ site = "direct"
  /\ row_num = 0
  /\ row = NoRow
  /\ result = PendingResult(NoRow, 0)
  /\ results = << >>
  /\ summary = NewSummary
  /\ loc = NoLoc
  /\ client \in { [LoggedInClient EXCEPT !.session = Some(t), !.headers = Some(t)] :
                    t \in Tokens }
  /\ req \in DirectRequests
  /\ phase = "send"
  /\ ret = None
  /\ response = NoResponse
  /\ hist = NoHist
  /\ issued = {}
  /\ exc = None
  /\ stored = None
  /\ exit_code = None
  /\ sleeps = 0
  /\ dirrun = NoDirRun

NextReq ==
  \/ HttpAttempt
  \/ Login

SpecReq == InitReq /\ [][NextReq]_vars

\* ------------------------------------------------------------------------
\* Update passes of one row against a repository that answers every request
\* and stores exactly the record it is sent
\* ------------------------------------------------------------------------
Passes == 2

UpdRows ==
  { Row(S("JPC_AV_00001"), t, S("abc123"), cd, ed, EmptyDate, f, d, tn) :
      t \in {EmptyStr, S("Test Reel"), Padded("New Title")},
      cd \in {EmptyDate, BlankDate, NotADate, Date_8_1_1982, Date_1982_08_01},
      ed \in {EmptyDate, Date_13_1_1982},
      f \in {EmptyStr, S("VHS"), Padded("Betacam")},
      d \in {EmptyStr, S("desc"), Padded("new desc")},
      tn \in {EmptyStr, S("transfer")} }

FullRow ==
  Row(S("JPC_AV_00001"), S("Test Reel"), S("abc123"), Date_8_1_1982,
      Date_13_1_1982, EmptyDate, S("VHS"), S("desc"), S("transfer"))
BareRow ==
  Row(S("JPC_AV_00001"), EmptyStr, S("abc123"), EmptyDate, EmptyDate,
      EmptyDate, EmptyStr, EmptyStr, EmptyStr)

UpdRecords ==
  { RecordOf(FullRow, "/ao/1"),
    RecordOf(BareRow, "/ao/1"),
    RecordOf(BaseRow, "/ao/1"),
    [RecordOf(FullRow, "/ao/1") EXCEPT
       !.notes = << OddNote >> \o @ \o << NoteMultipart("scopecontent", S("second")) >>],
    [RecordOf(BaseRow, "/ao/1") EXCEPT
       !.title = None,
       !.extents = @ \o << [portion |-> "part", number |-> "2",
                            extent_type |-> S("Betacam"),
                            jsonmodel_type |-> "extent"] >>] }

\* _TRANSFER_NOTES values an earlier import of the same row may have carried
TransferNotesBefore == {EmptyStr, S("transfer"), S("old transfer")}

\* the record an earlier import of the row wrote when only its
\* _TRANSFER_NOTES column read transfer_notes
RecordWithTransferNotes(r, transfer_notes) ==
  RecordOf([r EXCEPT !._TRANSFER_NOTES = transfer_notes], "/ao/1")

InitUpd ==
  /\ mode = "update"
  /\ dry_run = FALSE
  /\ pc = "pass"
  /\ site = ""
  /\ row_num = 0
  /\ row \in UpdRows
  /\ result = PendingResult(row, 0)
  /\ results = << >>
  /\ summary = NewSummary
  /\ loc = NoLoc
  /\ client = LoggedInClient
  /\ req = NoReq
  /\ phase = "idle"
  /\ ret = None
  /\ response = NoResponse
  /\ hist = NoHist
  /\ issued = {}
  /\ exc = None
  /\ stored \in { Some(r) : r \in UpdRecords
                               \cup { RecordWithTransferNotes(row, tn) :
                                        tn \in TransferNotesBefore }
                               \cup { RecordOf(row, "/ao/1") } }
  /\ exit_code = None
  /\ sleeps = 0
  /\ dirrun = NoDirRun

\* one run of update_archival_object for the row: the fetch returns the
\* stored record, the POST (if any) succeeds and replaces the stored record
UpdatePass ==
  /\ pc = "pass" /\ row_num < Passes
  /\ \E fetched \in { SegAfterFetch(row, dry_run, stored,
                        [NoLoc EXCEPT !.existing = TRUE,
                                      !.existing_uri = stored[1].uri]) } :
     \E final \in { IF fetched.t = "call"
                      THEN SegAfterUpdate(Some(UriBody(stored[1].uri)), fetched.loc)
                      ELSE fetched } :
     \E out \in { process_csv_row_exit(final, PendingResult(row, row_num + 1)) } :
        /\ stored' = IF fetched.t = "call" THEN fetched.data ELSE stored
        /\ req' = IF fetched.t = "call"
                    THEN [method |-> fetched.method, endpoint |-> fetched.endpoint,
                          data |-> fetched.data, retry_count |-> 0]
                    ELSE NoReq
        /\ issued' = IF fetched.t = "call"
                       THEN { [method |-> fetched.method, endpoint |-> fetched.endpoint] }
                       ELSE {}
        /\ loc' = final.loc
        /\ result' = out.result
        /\ results' = Append(results, Entry(out.result))
        /\ summary' = Count([summary EXCEPT !.total_rows = @ + 1], out.result.status)
  /\ row_num' = row_num + 1
  /\ UNCHANGED << mode, dry_run, pc, site, row, client, phase, ret, response,
                  hist, exc, exit_code, sleeps, dirrun >>

NextUpd == UpdatePass

SpecUpd == InitUpd /\ [][NextUpd]_vars

\* ------------------------------------------------------------------------
\* A client on its own: login() and logout() called in any order
\* ------------------------------------------------------------------------
MaxSessionCalls == 4

\* ArchivesSpaceClient.__init__
NewClient == [session |-> None, headers |-> None, valid_extent_types |-> None]

InitOut ==
  /\ mode = "skip"
  /\ dry_run = FALSE
  /\ pc = "session"
  /\ site = ""
  /\ row_num = 0
  /\ row = NoRow
  /\ result = PendingResult(NoRow, 0)
  /\ results = << >>
  /\ summary = NewSummary
  /\ loc = NoLoc
  /\ client \in { NewClient, LoggedInClient }
  /\ req = NoReq
  /\ phase = "idle"
  /\ ret = None
  /\ response = NoResponse
  /\ hist = NoHist
  /\ issued = {}
  /\ exc = None
  /\ stored = None
  /\ exit_code = None
  /\ sleeps = 0
  /\ dirrun = NoDirRun

\* client.logout(): hist.attempts counts the logout requests sent so far,
\* hist.token is the token this call sent (None: it sent nothing)
LogoutCall ==
  /\ pc = "session"
  /\ client.session = None \/ hist.attempts + hist.logins < MaxSessionCalls
  /\ \E resp \in LogoutResponses :
       \E out \in { logout(client, resp) } :
         /\ client' = out.client
         /\ ret' = Some(out.ok)
         /\ response' = IF out.sent THEN resp ELSE NoResponse
         /\ hist' = [hist EXCEPT !.attempts = IF out.sent THEN @ + 1 ELSE @,
                                 !.token = IF out.sent THEN client.headers ELSE None]
  /\ phase' = "logout"
  /\ UNCHANGED << mode, dry_run, pc, site, row_num, row, result, results,
                  summary, loc, req, issued, exc, stored, exit_code,
                  sleeps, dirrun >>

\* client.login()
LoginCall ==
  /\ pc = "session"
  /\ hist.attempts + hist.logins < MaxSessionCalls
  /\ \E lr \in LoginResponses(client) :
       \E l \in { login(client, lr) } :
         /\ client' = l.client
         /\ ret' = Some(l.ok)
         /\ response' = [status |-> lr.status, body |-> EmptyJson]
         /\ hist' = [hist EXCEPT !.logins = @ + 1, !.token = None]
  /\ phase' = "login_call"
  /\ UNCHANGED << mode, dry_run, pc, site, row_num, row, result, results,
                  summary, loc, req, issued, exc, stored, exit_code,
                  sleeps, dirrun >>

NextOut ==
  \/ LogoutCall
  \/ LoginCall

SpecOut == InitOut /\ [][NextOut]_vars

\* ------------------------------------------------------------------------
\* One row processed twice, as a preview and for real, against the same
\* repository in which every request succeeds
\* ------------------------------------------------------------------------
\* what the repository answers to the request of a call step: `st' is the
\* record it holds for the catalog number (None: no match), the parent
\* ref id abc123 resolves to /ao/9 and no other does
Answer(step, r, st) ==
  CASE step.site = "enum" -> Some(EnumBody(TRUE, LiveExtentTypes))
    [] step.site = "dup" ->
         Some(IF st = None THEN SearchBody(0, << >>)
              ELSE SearchBody(1, << Hit(st[1].uri[1]) >>))
    [] step.site = "fetch" -> st
    [] step.site = "update" -> Some(UriBody(step.endpoint))
    [] step.site = "parent_search" ->
         Some(IF Strip(r.ASpace_Parent_RefID) = S("abc123")
                THEN SearchBody(1, << Hit("/ao/9") >>)
                ELSE SearchBody(0, << >>))
    [] step.site = "parent_get" -> Some(UriBody(Some("/ao/9")))
    [] step.site = "container" -> Some(UriBody(Some("/tc/1")))
    [] step.site = "create" -> Some(UriBody(Some("/ao/3")))

\* process_csv_row from a step to its end
RECURSIVE RunFrom(_, _, _, _, _)
RunFrom(step, r, m, dry, st) ==
  IF step.t # "call" THEN step
  ELSE RunFrom(NextStep(step.site, Answer(step, r, st), r, m, dry, step.loc),
               r, m, dry, st)

DryRows ==
  BatchRows
  \cup { [BaseRow EXCEPT !.ASpace_Parent_RefID = S("zzz999")],
         [BaseRow EXCEPT !.TITLE = S("New Title")],
         [BaseRow EXCEPT !.DESCRIPTION = S("desc")] }

InitDry ==
  /\ mode \in {"skip", "update", "fail"}
  /\ dry_run = TRUE
  /\ pc = "preview"
  /\ site = ""
  /\ row_num = 0
  /\ row \in DryRows
  /\ result = PendingResult(row, 0)
  /\ results = << >>
  /\ summary = NewSummary
  /\ loc = NoLoc
  /\ client = LoggedInClient
  /\ req = NoReq
  /\ phase = "idle"
  /\ ret = None
  /\ response = NoResponse
  /\ hist = NoHist
  /\ issued = {}
  /\ exc = None
  /\ stored \in { None } \cup { Some(r) : r \in ExistingRecords }
  /\ exit_code = None
  /\ sleeps = 0
  /\ dirrun = NoDirRun

\* process_csv_row for the row with the current dry_run flag; the preview
\* comes first, the real run second, both from the repository state `stored'
RunRow ==
  /\ pc \in {"preview", "real"}
  /\ \E final \in { RunFrom(SegStart(row, client), row, mode, dry_run, stored) } :
     \E out \in { process_csv_row_exit(final, PendingResult(row, 1)) } :
       /\ loc' = final.loc
       /\ result' = out.result
       /\ results' = Append(results, Entry(out.result))
       /\ summary' = Count([summary EXCEPT !.total_rows = @ + 1], out.result.status)
  /\ row_num' = row_num + 1
  /\ dry_run' = FALSE
  /\ pc' = IF pc = "preview" THEN "real" ELSE "compared"
  /\ UNCHANGED << mode, site, row, client, req, phase, ret, response, hist,
                  issued, exc, stored, exit_code, sleeps, dirrun >>

NextDry == RunRow

SpecDry == InitDry /\ [][NextDry]_vars

\* ------------------------------------------------------------------------
\* process_csv_file over a long file: PaceRows copies of one row, each
\* processed against the repository in which every request succeeds
\* ------------------------------------------------------------------------
PaceRows == 21

InitPace ==
  /\ mode \in {"skip", "update", "fail"}
  /\ dry_run \in BOOLEAN
  /\ pc = "loop"
  /\ site = ""
  /\ row_num = 0
  /\ row \in DryRows
  /\ result = PendingResult(row, 0)
  /\ results = << >>
  /\ summary = NewSummary
  /\ loc = NoLoc
  /\ client = LoggedInClient
  /\ req = NoReq
  /\ phase = "idle"
  /\ ret = None
  /\ response = NoResponse
  /\ hist = NoHist
  /\ issued = {}
  /\ exc = None
  /\ stored \in { None } \cup { Some(r) : r \in ExistingRecords }
  /\ exit_code = None
  /\ sleeps = 0
  /\ dirrun = NoDirRun

\* one turn of the loop: the row is read, processed to its end and counted,
\* and the pacing test is made
PacedRow ==
  /\ pc = "loop" /\ row_num < PaceRows
  /\ row_num' = row_num + 1
  /\ \E first \in { SegStart(row, client) } :
     \E final \in { RunFrom(first, row, mode, dry_run, stored) } :
       /\ client' = IF first.t = "call" /\ first.site = "enum"
                      THEN ClientAfter("enum", Answer(first, row, stored), client)
                      ELSE client
       /\ loc' = final.loc
       /\ FinishRow(final, PendingResult(row, row_num + 1),
                    [summary EXCEPT !.total_rows = @ + 1])
  /\ UNCHANGED << mode, dry_run, row, ret, response, issued, stored, exit_code,
                  dirrun >>

\* the reader is exhausted: process_csv_file returns
PaceEnd ==
  /\ pc = "loop" /\ row_num = PaceRows
  /\ pc' = "returned"
  /\ UNCHANGED << mode, dry_run, site, row_num, row, result, results, summary,
                  loc, client, req, phase, ret, response, hist, issued, exc,
                  stored, exit_code, sleeps, dirrun >>

NextPace == PacedRow \/ PaceEnd

SpecPace == InitPace /\ [][NextPace]_vars

\* ------------------------------------------------------------------------
\* aspace-rename-directories.py: rename_and_update_directories
\* ------------------------------------------------------------------------
\* a directory entry: `jpc': its name contains "JPC_AV"; `refid': the
\* <ref_id> of a "_refid_<ref_id>" suffix of its name, None without one
DirEntry(jpc, refid) == [jpc |-> jpc, refid |-> refid, is_dir |-> TRUE]

\* the entries of the target directory (the paths given with --single), in
\* the order of their names: JPC_AV_00001, JPC_AV_00002,
\* JPC_AV_00003_refid_r3, notes
DiskEntries ==
  << DirEntry(TRUE, None), DirEntry(TRUE, None), DirEntry(TRUE, Some("r3")),
     DirEntry(FALSE, None) >>

\* "JPC_AV" in name, "_refid_" not in name, os.path.isdir: the same three
\* tests in --single mode and in -d mode
Selectable(e) == e.jpc /\ e.refid = None /\ e.is_dir

\* directory_list, sorted
DirectoryList(disk) == SelectSeq(<< 1, 2, 3, 4 >>, LAMBDA i : Selectable(disk[i]))

\* the answers to the component_id search of get_refid; `raised': the
\* request or the parsing raised
DirHit(ref_id) == [ref_id |-> ref_id, id |-> "/ao/1"]
DirSearchResponses ==
  { [raised |-> TRUE, results |-> << >>],
    [raised |-> FALSE, results |-> << >>],
    [raised |-> FALSE, results |-> << DirHit(Some("r1")) >>],
    [raised |-> FALSE, results |-> << DirHit(None) >>],
    [raised |-> FALSE, results |-> << DirHit(Some("r1")), DirHit(Some("r2")) >>] }

\* get_refid: (ref_id, archival_object_id) of the first result, with a
\* warning when there are several; (None, None) otherwise
get_refid(resp) ==
  IF ~resp.raised /\ resp.results # << >>
  THEN [ref_id |-> resp.results[1].ref_id, ao_id |-> Some(resp.results[1].id),
        warned |-> Len(resp.results) > 1]
  ELSE [ref_id |-> None, ao_id |-> None, warned |-> FALSE]

DirOutcome(found, outcome, updated, renamed, mkv_renamed) ==
  [ref_id |-> found.ref_id, warned |-> found.warned, outcome |-> outcome,
   updated |-> updated, renamed |-> renamed, mkv_renamed |-> mkv_renamed]

\* the loop body with step 4 (rename) ahead of step 3 (update): a failed
\* fetch or update leaves a renamed directory behind
process_directory_RenamesFirst(o, dry, found, has_mkv, fetch_ok, update_ok) ==
  IF found.ref_id = None \/ found.ao_id = None
    THEN DirOutcome(found, "no_match", FALSE, FALSE, FALSE)
  ELSE IF ~has_mkv
    THEN DirOutcome(found, "no_mkv", FALSE, FALSE, FALSE)
  ELSE
    LET renamed == ~o.no_rename /\ o.working_dir # None /\ ~dry
        updated == ~o.no_update /\ ~dry
    IN IF ~o.no_rename /\ o.working_dir = None
         THEN DirOutcome(found, "TypeError", FALSE, FALSE, FALSE)
       ELSE IF updated /\ ~fetch_ok
         THEN DirOutcome(found, "fetch_failed", FALSE, renamed, FALSE)
       ELSE IF updated /\ ~update_ok
         THEN DirOutcome(found, "update_failed", FALSE, renamed, FALSE)
       ELSE DirOutcome(found, "done", updated, renamed, renamed /\ o.rename_mkv)

\* the body of the loop over directory_list for one directory: steps 1-5
\* and the except clause
process_directory(o, dry, found, has_mkv, fetch_ok, update_ok) ==
  IF found.ref_id = None \/ found.ao_id = None
    THEN DirOutcome(found, "no_match", FALSE, FALSE, FALSE)
  ELSE IF ~has_mkv
    THEN DirOutcome(found, "no_mkv", FALSE, FALSE, FALSE)
  ELSE IF ~o.no_update /\ ~dry /\ ~fetch_ok
    THEN DirOutcome(found, "fetch_failed", FALSE, FALSE, FALSE)
  ELSE IF ~o.no_update /\ ~dry /\ ~update_ok
    THEN DirOutcome(found, "update_failed", FALSE, FALSE, FALSE)
  ELSE
    LET updated == ~o.no_update /\ ~dry IN
    IF o.no_rename THEN DirOutcome(found, "done", updated, FALSE, FALSE)
    \* os.path.join(working_dir, new_directory_name) with working_dir None
    ELSE IF o.working_dir = None
      THEN DirOutcome(found, "TypeError", updated, FALSE, FALSE)
    ELSE IF dry THEN DirOutcome(found, "done", updated, FALSE, FALSE)
    ELSE DirOutcome(found, "done", updated, TRUE, o.rename_mkv)

\* "if single: working_dir = None else: working_dir = abspath(target_dir)"
DirRun(single, no_rename, no_update, rename_mkv) ==
  [single |-> single, no_rename |-> no_rename, no_update |-> no_update,
   rename_mkv |-> rename_mkv,
   working_dir |-> IF single THEN None ELSE Some("/videos"),
   disk |-> DiskEntries, directory_list |-> << >>, done |-> << >>]

InitDir ==
  /\ mode = "skip"
  /\ dry_run \in BOOLEAN
  /\ pc = "dir_start"
  /\ site = ""
  /\ row_num = 0
  /\ row = NoRow
  /\ result = PendingResult(NoRow, 0)
  /\ results = << >>
  /\ summary = NewSummary
  /\ loc = NoLoc
  /\ client = LoggedInClient
  /\ req = NoReq
  /\ phase = "idle"
  /\ ret = None
  /\ response = NoResponse
  /\ hist = NoHist
  /\ issued = {}
  /\ exc = None
  /\ stored = None
  /\ exit_code = None
  /\ sleeps = 0
  /\ dirrun \in { DirRun(s, nr, nu, rm) : s \in BOOLEAN, nr \in BOOLEAN,
                                           nu \in BOOLEAN, rm \in BOOLEAN }

\* "Find directories to process"
Discover ==
  /\ pc = "dir_start"
  /\ dirrun' = [dirrun EXCEPT !.directory_list = DirectoryList(dirrun.disk)]
  /\ pc' = "dir_loop"
  /\ UNCHANGED << mode, dry_run, site, row_num, row, result, results, summary,
                  loc, client, req, phase, ret, response, hist, issued, exc,
                  stored, exit_code, sleeps >>

\* one turn of "for directory in directory_list"
ProcessDirectory ==
  /\ pc = "dir_loop" /\ Len(dirrun.done) < Len(dirrun.directory_list)
  /\ \E resp \in DirSearchResponses, has_mkv \in BOOLEAN,
        fetch_ok \in BOOLEAN, update_ok \in BOOLEAN :
       \E d \in { dirrun.directory_list[Len(dirrun.done) + 1] } :
       \E out \in { process_directory(dirrun, dry_run, get_refid(resp),
                                      has_mkv, fetch_ok, update_ok) } :
         dirrun' = [dirrun EXCEPT
                      !.done = Append(@, out),
                      !.disk[d].refid = IF out.renamed THEN out.ref_id ELSE @]
  /\ UNCHANGED << mode, dry_run, pc, site, row_num, row, result, results,
                  summary, loc, client, req, phase, ret, response, hist, issued,
                  exc, stored, exit_code, sleeps >>

\* "Processing complete!"
DirEnd ==
  /\ pc = "dir_loop" /\ Len(dirrun.done) = Len(dirrun.directory_list)
  /\ pc' = "dir_done"
  /\ UNCHANGED << mode, dry_run, site, row_num, row, result, results, summary,
                  loc, client, req, phase, ret, response, hist, issued, exc,
                  stored, exit_code, sleeps, dirrun >>

NextDir == Discover \/ ProcessDirectory \/ DirEnd

SpecDir == InitDir /\ [][NextDir]_vars

\* make_request under a scheduler that lets the call run on
SpecReqLive == InitReq /\ [][NextReq]_vars /\ WF_vars(NextReq)

\* ------------------------------------------------------------------------
\* Properties
\* ------------------------------------------------------------------------
CreateRequest == [method |-> "POST", endpoint |-> Some(ArchivalObjects)]
ContainerRequest == [method |-> "POST", endpoint |-> Some(TopContainers)]
DuplicateSearch == [method |-> "GET", endpoint |-> Some(SearchComponent)]
ParentSearch == [method |-> "GET", endpoint |-> Some(SearchRefId)]
EnumerationFetch == [method |-> "GET", endpoint |-> Some(Enumerations)]
Writes == { r \in issued : r.method # "GET" }
ReadErrorText == "Error reading CSV file"
RowFinished == pc # "call" /\ row_num >= 1

\* C1: in fail mode, a row whose component ID already exists ends the
\* batch at once: the exception leaves process_csv_file and no later row
\* is read.
C1_FailModeAborts ==
  (mode = "fail" /\ RowFinished /\ loc.existing)
    => (pc = "raised" /\ exc = Some("Duplicate component ID"))

\* C2: in update mode, a matched record whose diff against the row is empty
\* gives status 'unchanged' and no write request is sent for the row.
C2_UnchangedNoWrite ==
  (mode = "update" /\ loc.existing /\ loc.existing_obj # None
     /\ detect_changes(loc.existing_obj[1], row) = NoChanges)
    => (pc # "call" /\ result.status = "unchanged" /\ Writes = {})
C2_Witness ==
  /\ mode = "update" /\ ~dry_run /\ pc = "loop"
  /\ loc.existing /\ loc.existing_obj # None /\ loc.changes = NoChanges
  /\ result.status = "unchanged"

\* C3: after an update pass that reports 'updated' against a repository
\* storing exactly the submitted record, a second pass of the same row
\* reports 'unchanged' and sends no write.
C3_UpdateIdempotent ==
  (pc = "pass" /\ ~dry_run /\ Len(results) = 2 /\ results[1].status = "updated")
    => (results[2].status = "unchanged" /\ issued = {})

\* C4: in dry-run mode no top-container create, no archival-object create
\* and no archival-object update is sent: every request of a row is a GET.
C4_DryRunReadOnly ==
  dry_run => (\A r \in issued : r.method = "GET") /\ Writes = {}
C4_Witness ==
  /\ dry_run /\ pc = "loop" /\ result.status = "created"
  /\ result.message = "Would be created" /\ loc.ao_data # None

\* C5: in skip mode a matched row is reported 'skipped'; the record is not
\* fetched, the parent is not looked up and nothing is written.
C5_SkipTouchesNothing ==
  (mode = "skip" /\ loc.existing)
    => /\ pc # "call" /\ result.status = "skipped"
       /\ issued \subseteq {DuplicateSearch, EnumerationFetch}
       /\ loc.existing_obj = None /\ loc.parent_uri = None
C5_Witness ==
  /\ mode = "skip" /\ pc = "loop" /\ loc.existing /\ loc.existing_uri # None
  /\ DuplicateSearch \in issued

\* C6: when the attempt retried after a successful re-login gets a 2xx,
\* make_request returns that response's body, the retried request carries
\* the new session token, and a call of two attempts has logged in once.
C6_ReloginRetry ==
  (site = "direct" /\ phase = "done" /\ hist.relogged
     /\ response.status \in {200, 201})
    => /\ ret = Some(response.body)
       /\ hist.token = client.headers /\ hist.token # None
       /\ hist.token # hist.stale
       /\ hist.logins >= 1 /\ hist.logins < hist.attempts
       /\ (hist.attempts = 2 => hist.logins = 1)
C6_Witness ==
  /\ site = "direct" /\ phase = "done" /\ hist.relogged
  /\ response.status = 200 /\ ret # None
  /\ hist.attempts = 2 /\ hist.logins = 1

\* C7: make_request ends after at most RETRY_ATTEMPTS retries, i.e. at most
\* RETRY_ATTEMPTS + 1 HTTP attempts, and returns null when its last
\* response (hence every response) was not a 200/201.
C7_BoundedRetry ==
  /\ [](/\ hist.attempts <= RETRY_ATTEMPTS + 1
        /\ req.retry_count <= RETRY_ATTEMPTS
        /\ (phase = "done" /\ response.status \notin {200, 201}) => ret = None)
  /\ <>(phase = "done")
C7_Witness ==
  /\ site = "direct" /\ phase = "done" /\ ret = None
  /\ hist.attempts = RETRY_ATTEMPTS + 1 /\ req.retry_count = RETRY_ATTEMPTS

\* C8: when the duplicate-check search fails (make_request returned null),
\* the row is not taken for 'no match': no create request is sent for it.
C8_FailedSearchNoCreate ==
  (DuplicateSearch \in issued /\ site # "dup" /\ loc.search = None)
    => (CreateRequest \notin issued /\ ContainerRequest \notin issued
        /\ result.status # "created")

\* C9: in modes skip and update the results list has one entry per row
\* consumed, the i-th with row_number i, and the batch is only ever cut
\* short by a failure to read the file.
C9_OneResultPerRow ==
  mode \in {"skip", "update"} =>
    /\ Len(results) = IF pc = "call" THEN row_num - 1 ELSE row_num
    /\ \A i \in DOMAIN results : results[i].row_number = i
    /\ (pc \in {"returned", "exited"} /\ exc = None) => Len(results) = NumRows
    /\ exc \in {None, Some(ReadErrorText)}
    /\ pc = "raised" => exc = Some(ReadErrorText)
C9_Witness ==
  /\ mode \in {"skip", "update"} /\ pc = "returned" /\ Len(results) = NumRows
  /\ results[1].status = "error" /\ results[NumRows].status # "error"

\* C10: in modes skip and update an exception raised while a row is
\* processed gives that row the status 'error' and leaves the loop running.
C10_RowFailureIsolated ==
  (mode \in {"skip", "update"} /\ RowFinished
     /\ result.message \in {"IndexError", "KeyError"})
    => /\ result.status = "error"
       /\ results[row_num] = [row_number |-> row_num, status |-> "error"]
       /\ summary.failed >= 1
       /\ exc \in {None, Some(ReadErrorText)}
       /\ pc = "raised" => exc = Some(ReadErrorText)
       /\ (pc = "loop" \/ row_num = NumRows \/ exc = Some(ReadErrorText))
C10_Witness ==
  /\ mode \in {"skip", "update"} /\ pc = "loop" /\ row_num < NumRows
  /\ result.message = "KeyError" /\ result.status = "error"
  /\ results[row_num].status = "error"

\* C11: a row whose CATALOG_NUMBER is empty or only whitespace is reported
\* 'skipped' in every mode and sends no request at all: it ends before the
\* extent validation, the duplicate check and the parent lookup.
C11_EmptyCatalogSkipped ==
  (row_num >= 1 /\ row.CATALOG_NUMBER.core = "")
    => (pc # "call" /\ result.status = "skipped" /\ issued = {}
        /\ loc = NoLoc)
C11_Witness ==
  /\ pc = "loop" /\ row_num >= 1 /\ row.CATALOG_NUMBER = BlankStr
  /\ result.status = "skipped" /\ result.message = "Missing catalog number"
  /\ results[row_num].status = "skipped"

\* C12: whenever the create request of an archival object is sent, the
\* row's parent ref id is non-empty, the parent search and the fetch of the
\* parent record were made, and the payload's parent is that record's uri.
ParentFetch == [method |-> "GET", endpoint |-> Some("/ao/9")]
C12_CreateHasParent ==
  (site = "create" \/ CreateRequest \in issued)
    => /\ row.ASpace_Parent_RefID.core # ""
       /\ ParentSearch \in issued /\ ParentFetch \in issued
       /\ loc.parent_uri = ParentFetch.endpoint
       /\ loc.ao_data # None /\ loc.ao_data[1].parent = ParentFetch.endpoint
       /\ (pc = "call" /\ site = "create")
            => (req.data # None /\ req.data[1].parent = ParentFetch.endpoint)
C12_Witness ==
  /\ pc = "loop" /\ CreateRequest \in issued /\ result.status = "created"
  /\ loc.ao_data # None /\ loc.ao_data[1].parent = Some("/ao/9")

\* C13: a row with a catalog number but an empty parent ref id ends with
\* status 'error' or 'skipped' in every duplicate mode, match or no match,
\* and causes no record write.
C13_MissingParentTerminal ==
  (RowFinished /\ row.CATALOG_NUMBER.core # ""
     /\ row.ASpace_Parent_RefID.core = "")
    => (result.status \in {"error", "skipped"} /\ Writes = {})

\* C14: a row whose non-empty Original Format is not in the enumeration in
\* force (live or fallback) is reported 'error' and stops there: no
\* duplicate search, no parent lookup and no write is sent for it.
C14_InvalidFormatStops ==
  (row_num >= 1 /\ row.CATALOG_NUMBER.core # "" /\ row.Original_Format.core # ""
     /\ client.valid_extent_types # None
     /\ Strip(row.Original_Format) \notin Range(client.valid_extent_types[1]))
    => (pc # "call" /\ result.status = "error"
        /\ issued \subseteq {EnumerationFetch})
C14_Witness ==
  /\ pc = "loop" /\ row.Original_Format = S("Betacam")
  /\ client.valid_extent_types = Some(LiveExtentTypes)
  /\ result.status = "error" /\ result.message = "Invalid extent type"
  /\ issued = {EnumerationFetch}

\* C15: the process ends with a non-zero status exactly when the results
\* hold an 'error' entry or process_csv_file raised; otherwise, a clean
\* dry run included, it ends with status 0.
C15_ExitStatus ==
  pc = "exited" =>
    /\ exit_code # None
    /\ (exit_code # Some(0))
         <=> ((\E i \in DOMAIN results : results[i].status = "error")
              \/ exc # None)
C15_Witness ==
  /\ pc = "exited" /\ exit_code = Some(0) /\ dry_run
  /\ Len(results) = NumRows /\ exc = None

\* the notes of a list whose type the row does not produce
ForeignNotes(notes, r) ==
  SelectSeq(notes, LAMBDA n :
              n.type \notin { create_notes(r)[i].type : i \in DOMAIN create_notes(r) })
\* what an update reporting a title change must have done
TitleUpdated ==
  /\ result.status = "updated"
  /\ "title" \in DOMAIN loc.changes
  /\ loc.changes["title"][1] = loc.existing_obj[1].title
  /\ loc.changes["title"][2] # loc.existing_obj[1].title
  /\ req.data # None
  /\ req.data[1].title = loc.changes["title"][2]
  /\ ForeignNotes(req.data[1].notes, row) = ForeignNotes(loc.existing_obj[1].notes, row)

\* C16 as stated: in update mode, whenever the matched record's title
\* differs from the row's TITLE, the row is 'updated', the diff maps title
\* to (old, new), the payload carries the new title and the notes of other
\* types unchanged and in order.
C16_TitleDiffers ==
  (pc = "pass" /\ ~dry_run /\ row_num >= 1
     /\ loc.existing_obj[1].title # Some(row.TITLE))
    => TitleUpdated

\* C16 amended: the same when the row's TITLE, stripped, is non-empty and
\* differs from the record's title.
C16_TitleUpdate ==
  (pc = "pass" /\ ~dry_run /\ row_num >= 1
     /\ row.TITLE.core # ""
     /\ loc.existing_obj[1].title # Some(Strip(row.TITLE)))
    => (TitleUpdated /\ loc.changes["title"][2] = Some(Strip(row.TITLE)))
C16_Witness ==
  /\ pc = "pass" /\ row_num = 1 /\ result.status = "updated"
  /\ row.TITLE = Padded("New Title") /\ row.DESCRIPTION.core # ""
  /\ "title" \in DOMAIN loc.changes
  /\ loc.changes["title"] = << Some(S("Test Reel")), Some(S("New Title")) >>
  /\ req.data[1].title = Some(S("New Title"))
  /\ ForeignNotes(loc.existing_obj[1].notes, row)
       = << OddNote, NoteMultipart("phystech", S("transfer")) >>
  /\ req.data[1].notes[1] = OddNote

\* C17: change detection of a row against the record the create path
\* builds from that same row finds nothing to change.
C17_RoundTrip ==
  (pc = "pass" /\ row_num >= 1 /\ loc.existing_obj = Some(RecordOf(row, "/ao/1")))
    => /\ detect_changes(RecordOf(row, "/ao/1"), row) = NoChanges
       /\ loc.changes = NoChanges /\ result.status = "unchanged"
       /\ req = NoReq /\ stored = loc.existing_obj
C17_Witness ==
  /\ pc = "pass" /\ row_num = 1 /\ loc.existing_obj = Some(RecordOf(row, "/ao/1"))
  /\ row.TITLE = Padded("New Title") /\ row.Original_Format = Padded("Betacam")
  /\ row.Creation_or_Recording_Date = Date_8_1_1982
  /\ row.DESCRIPTION = Padded("new desc")
  /\ result.status = "unchanged"

\* C18: logout with no session returns true and sends nothing; a logout
\* answered 200 returns true and clears session and headers (so the next
\* logout sends nothing); a logout answered otherwise, or not answered,
\* returns false and leaves the session in place.
C18_LogoutIdempotent ==
  [][ (pc = "session" /\ phase' = "logout") =>
        IF client.session = None
          THEN /\ ret' = Some(TRUE)
               /\ hist'.attempts = hist.attempts /\ hist'.token = None
               /\ client' = client
          ELSE /\ hist'.attempts = hist.attempts + 1
               /\ hist'.token = client.headers
               /\ IF response'.status = 200
                    THEN /\ ret' = Some(TRUE)
                         /\ client'.session = None /\ client'.headers = None
                    ELSE /\ ret' = Some(FALSE)
                         /\ client' = client ]_vars
C18_Witness ==
  /\ pc = "session" /\ phase = "logout" /\ ret = Some(TRUE)
  /\ hist.token = None /\ hist.attempts = 1 /\ hist.logins = 0
  /\ client.session = None /\ client.headers = None

\* C19: against a repository in which every request succeeds, the status a
\* row gets with dry-run set is the status it gets with dry-run unset.
C19_DryRunSameStatus ==
  pc = "compared" =>
    /\ Len(results) = 2
    /\ results[1].status = results[2].status
    /\ results[2].status \in {"created", "updated", "unchanged", "skipped", "error"}
C19_Witness ==
  /\ pc = "compared" /\ stored = None /\ mode = "skip"
  /\ results[1].status = "created" /\ results[2].status = "created"
  /\ result.message = "Created successfully"

C21_SingleLogin ==
  site = "direct" => hist.logins <= 1

\* C22: make_request returns null only once RETRY_ATTEMPTS retries have been
\* made, whatever the failures were, a 412 whose re-login fails included.
C22_NullAfterRetries ==
  (site = "direct" /\ phase = "done" /\ ret = None)
    => (req.retry_count = RETRY_ATTEMPTS /\ hist.attempts = RETRY_ATTEMPTS + 1)

\* C23: on the update path with a non-empty diff, the submitted record has,
\* for every field the diff names, the diff's new value: its title, the
\* begin dates by label, the extent types and the scope note are the new
\* ones, also when the row maps to no dates or no extents.
C23_UpdateRealisesDiff ==
  (pc = "pass" /\ ~dry_run /\ row_num >= 1 /\ result.status = "updated"
     /\ req.data # None)
    => /\ loc.changes # NoChanges
       /\ "title" \in DOMAIN loc.changes
            => req.data[1].title = loc.changes["title"][2]
       /\ "dates" \in DOMAIN loc.changes
            => Begins(req.data[1].dates) = loc.changes["dates"][2]
       /\ "extents" \in DOMAIN loc.changes
            => ExtentTypes(req.data[1].extents) = loc.changes["extents"][2]
       /\ "description" \in DOMAIN loc.changes
            => get_note_content(req.data[1].notes, "scopecontent")
                 = loc.changes["description"][2]

\* a row with a catalog number and a valid Original Format, no match found
\* by the duplicate search, a parent that resolved, dry-run unset, for which
\* the top-container step is over (a container answer without a uri, which
\* raises, set aside)
CreatePathRow ==
  /\ row_num >= 1 /\ ~dry_run
  /\ row.CATALOG_NUMBER.core # "" /\ row.Original_Format.core # ""
  /\ client.valid_extent_types # None
  /\ Strip(row.Original_Format) \in Range(client.valid_extent_types[1])
  /\ loc.search = Some(SearchBody(0, << >>))
  /\ loc.parent_uri # None
  /\ loc.container_result # None
  /\ loc.container_result[1] # Some(UriBody(None))
CreateCallRunning == pc = "call" /\ site = "create"

\* C24: in every duplicate mode, with dry-run unset, such a row makes the
\* archival-object create call exactly once, with a payload whose
\* component_id is the stripped catalog number, level 'item', publish true,
\* parent the resolved parent's uri and one extent of the row's format; the
\* row is 'created' when the call returns a record and 'error' when it
\* returns null.
C24_CreatePath ==
  /\ [](CreatePathRow =>
          /\ loc.ao_data # None
          /\ loc.ao_data[1].component_id = Some(Strip(row.CATALOG_NUMBER))
          /\ loc.ao_data[1].level = "item"
          /\ loc.ao_data[1].publish = TRUE
          /\ loc.ao_data[1].parent = loc.parent_uri
          /\ Len(loc.ao_data[1].extents) = 1
          /\ loc.ao_data[1].extents[1].extent_type = Strip(row.Original_Format)
          /\ pc = "call"
               => /\ site = "create" /\ loc.create_result = None
                  /\ req.method = "POST" /\ req.endpoint = Some(ArchivalObjects)
                  /\ req.data = loc.ao_data
          /\ pc # "call"
               => /\ CreateRequest \in issued
                  /\ loc.create_result # None
                  /\ result.status
                       = IF Ok(loc.create_result[1]) THEN "created" ELSE "error")
  /\ [][ /\ (~CreateCallRunning /\ CreateCallRunning')
              => (pc = "call" /\ site = "container" /\ CreateRequest \notin issued)
         /\ (CreateCallRunning /\ ~CreateCallRunning') => pc' # "call" ]_vars
C24_Witness ==
  /\ CreatePathRow /\ mode = "fail" /\ pc = "loop"
  /\ loc.create_result = Some(Some(UriBody(Some("/ao/3"))))
  /\ result.status = "created" /\ result.uri = Some("/ao/3")

\* C25: with dry-run unset process_csv_file has made one pacing delay for
\* every BATCH_SIZE-th row processed so far (the delay follows row n exactly
\* when n is a multiple of BATCH_SIZE, every row having produced a result);
\* with dry-run set it makes none.
C25_Pacing ==
  /\ Len(results) = row_num
  /\ sleeps = IF dry_run THEN 0 ELSE row_num \div BATCH_SIZE
C25_Witness ==
  /\ ~dry_run /\ pc = "loop" /\ row_num = 2 * BATCH_SIZE /\ sleeps = 2
  /\ Len(results) = 2 * BATCH_SIZE

\* C26: in update mode with a match, when the fetch of the matched record
\* returns nothing, the row is 'error', no diff is computed and no write is
\* sent for it.
FetchOf(l) == [method |-> "GET", endpoint |-> l.existing_uri]
FetchCameBackEmpty ==
  /\ mode = "update" /\ loc.existing /\ FetchOf(loc) \in issued
  /\ ~(pc = "call" /\ site = "fetch")
  /\ loc.existing_obj = None
C26_FetchFailure ==
  FetchCameBackEmpty
    => /\ pc # "call"
       /\ result.status = "error" /\ result.message = "Failed to update"
       /\ loc.changes = NoChanges /\ result.changes = NoChanges
       /\ Writes = {}
       /\ results[row_num].status = "error"
C26_Witness ==
  /\ FetchCameBackEmpty /\ ~dry_run /\ pc = "loop"
  /\ issued = { DuplicateSearch, EnumerationFetch, FetchOf(loc) }
  /\ result.status = "error" /\ summary.failed >= 1

\* C27: when the duplicate search of the import returns more than one
\* match, the first match's uri is the one used, for the duplicate decision
\* and as the update target, and a warning is logged.
C27_FirstMatchWarned ==
  (row_num >= 1 /\ Ok(loc.search) /\ Len(loc.search[1].results) > 1)
    => /\ loc.existing
       /\ loc.existing_uri = loc.search[1].results[1].uri
       /\ (pc = "call" /\ site \in {"fetch", "update"})
            => req.endpoint = loc.search[1].results[1].uri
       /\ loc.warned

\* C28: without --dry-run and without --no-rename, every selected directory
\* whose ref_id lookup, record fetch and record update succeeded is renamed
\* to <name>_refid_<ref_id>, with -d and with --single alike.
C28_Renamed ==
  \A k \in DOMAIN dirrun.done :
    (~dry_run /\ ~dirrun.no_rename /\ dirrun.done[k].ref_id # None
       /\ dirrun.done[k].updated)
      => dirrun.disk[dirrun.directory_list[k]].refid = dirrun.done[k].ref_id

\* C29: between rows and at normal return of process_csv_file, created +
\* updated + unchanged + failed + skipped = total_rows = the number of
\* results, in every mode and for every sequence of answers, and no result
\* is left 'pending'.
Counted(sum) == sum.created + sum.updated + sum.unchanged + sum.failed + sum.skipped
C29_SummaryPartition ==
  /\ pc \in {"loop", "returned"}
       => /\ Counted(summary) = summary.total_rows
          /\ summary.total_rows = Len(results)
          /\ summary.total_rows = row_num
  /\ \A i \in DOMAIN results :
       results[i].status \in {"created", "updated", "unchanged", "error", "skipped"}
  /\ \A s \in {"created", "updated", "unchanged", "skipped"} :
       summary[s] = Cardinality({ i \in DOMAIN results : results[i].status = s })
  /\ summary.failed = Cardinality({ i \in DOMAIN results : results[i].status = "error" })
C29_Witness ==
  /\ pc = "returned" /\ summary.total_rows = NumRows /\ Len(results) = NumRows
  /\ summary.skipped = 1 /\ summary.failed = 1

\* C30: on the create path with dry-run unset the top-container call is made
\* once and has returned before the archival-object call starts; when it
\* returned nothing the record is still submitted, without instances, and
\* the row's status is that of the record's create; when the record's create
\* fails, nothing is sent to undo the top container.
ContainerCallRunning == pc = "call" /\ site = "container"
C30_ContainerFirst ==
  /\ []((CreateCallRunning \/ CreateRequest \in issued)
          => /\ ~dry_run
             /\ ContainerRequest \in issued
             /\ loc.container_result # None)
  /\ []((row_num >= 1 /\ loc.container_result # None)
          => /\ loc.ao_data[1].instances
                  = IF Ok(loc.container_result[1])
                      THEN << Instance(loc.container_result[1][1].uri[1]) >>
                      ELSE << >>
             /\ CreateCallRunning => req.data = loc.ao_data
             /\ CreateCallRunning \/ loc.create_result # None
             /\ loc.create_result # None
                  => /\ result.status
                          = IF Ok(loc.create_result[1]) THEN "created" ELSE "error"
                     /\ Writes = { ContainerRequest, CreateRequest })
  /\ [][ /\ (~ContainerCallRunning /\ ContainerCallRunning')
              => (pc = "call" /\ site = "parent_get"
                  /\ ContainerRequest \notin issued /\ CreateRequest \notin issued)
         /\ (ContainerCallRunning /\ ~ContainerCallRunning')
              => (CreateCallRunning' \/ result'.message = "KeyError")
         /\ (~CreateCallRunning /\ CreateCallRunning') => ContainerCallRunning
       ]_vars
C30_Witness ==
  /\ ~dry_run /\ pc = "loop" /\ loc.container_result = Some(None)
  /\ loc.ao_data[1].instances = << >>
  /\ loc.create_result = Some(Some(UriBody(Some("/ao/3"))))
  /\ result.status = "created" /\ Writes = { ContainerRequest, CreateRequest }

\* ------------------------------------------------------------------------
\* C31: in mode 'update', a row that differs from the existing record only in
\* its _TRANSFER_NOTES value gives an empty diff: the result is 'unchanged',
\* no request is sent and the stored record keeps its old technical note
\* ------------------------------------------------------------------------
OnlyTransferNotesDiffer ==
  /\ pc = "pass" /\ row_num >= 1
  /\ \E tn \in TransferNotesBefore :
       /\ Strip(tn) # Strip(row._TRANSFER_NOTES)
       /\ loc.existing_obj = Some(RecordWithTransferNotes(row, tn))

C31_TransferNotesIgnored ==
  OnlyTransferNotesDiffer =>
    /\ detect_changes(loc.existing_obj[1], row) = NoChanges
    /\ loc.changes = NoChanges
    /\ result.status = "unchanged"
    /\ req = NoReq /\ issued = {}
    /\ stored = loc.existing_obj
    /\ get_note_content(stored[1].notes, "phystech")
         # get_note_content(create_notes(row), "phystech")

\* the row brings a technical note and the record has none
C31_Witness ==
  /\ OnlyTransferNotesDiffer
  /\ row._TRANSFER_NOTES = S("transfer")
  /\ get_note_content(stored[1].notes, "phystech") = None
  /\ result.status = "unchanged"

\* ------------------------------------------------------------------------
\* C32: once login has succeeded, every terminating path of the import CLI
\* (clean completion, completion with failed rows, an exception out of the
\* batch, a fail-mode abort included) calls logout exactly once before the
\* process exits: no logout request is sent while the batch runs, the step
\* that ends the process is one logout call with the session's token, and
\* nothing runs after it
\* ------------------------------------------------------------------------
ExitCodeOf(raised, sum) ==
  IF raised THEN 1 ELSE IF sum.failed > 0 THEN 2 ELSE 0

C32_LogoutOnEveryExit ==
  /\ [](pc # "exited" => (phase # "logout" /\ exit_code = None
                            /\ client.session # None))
  /\ [](pc = "exited" => (phase = "logout" /\ ret # None /\ hist.attempts = 1))
  /\ [][pc' = "exited" =>
          /\ pc \in {"returned", "raised"}
          /\ exit_code' = Some(ExitCodeOf(pc = "raised", summary))
          /\ phase' = "logout"
          /\ hist'.attempts = 1 /\ hist'.token = client.headers
          /\ ret' = Some(response'.status = 200)]_vars

\* an exception out of the batch, after a row was processed in mode 'fail',
\* has ended the process with status 1 and the session is logged out
C32_Witness ==
  /\ pc = "exited" /\ exit_code = Some(1)
  /\ mode = "fail" /\ exc = Some(ReadErrorText) /\ Len(results) >= 1
  /\ phase = "logout" /\ hist.attempts = 1 /\ client.session = None

\* ------------------------------------------------------------------------
\* C33: in a run of the directory script without --dry-run and without
\* --no-update, a directory is renamed only after its archival-object update
\* has succeeded; when the lookup, the fetch or the update fails, the
\* directory and its .mkv file keep their names and the loop goes on with
\* the next directory
\* ------------------------------------------------------------------------
UpdatingRun == ~dry_run /\ ~dirrun.no_update /\ pc \in {"dir_loop", "dir_done"}

\* the disk entry of the k-th processed directory
ProcessedEntry(k) == dirrun.disk[dirrun.directory_list[k]]

C33_UpdateBeforeRename ==
  UpdatingRun =>
    /\ \A k \in DOMAIN dirrun.done :
         /\ (dirrun.done[k].renamed \/ dirrun.done[k].mkv_renamed
                \/ ProcessedEntry(k).refid # None)
              => (dirrun.done[k].updated /\ dirrun.done[k].outcome = "done")
         /\ dirrun.done[k].outcome \in {"no_match", "fetch_failed", "update_failed"}
              => /\ ~dirrun.done[k].renamed /\ ~dirrun.done[k].mkv_renamed
                 /\ ~dirrun.done[k].updated
                 /\ ProcessedEntry(k).refid = None
    /\ pc = "dir_done" => Len(dirrun.done) = Len(dirrun.directory_list)
    /\ (pc = "dir_loop" /\ Len(dirrun.done) < Len(dirrun.directory_list))
         => ENABLED ProcessDirectory

\* the first directory's update failed and it kept its name; the second
\* was updated and then renamed, with its .mkv file
C33_Witness ==
  /\ UpdatingRun /\ pc = "dir_done" /\ Len(dirrun.done) = 2
  /\ dirrun.done[1].outcome = "update_failed" /\ ProcessedEntry(1).refid = None
  /\ dirrun.done[2].outcome = "done" /\ dirrun.done[2].updated
  /\ dirrun.done[2].renamed /\ dirrun.done[2].mkv_renamed
  /\ ProcessedEntry(2).refid = Some("r1")

=============================================================================
